---------------------------- MODULE Spec2Model ----------------------------
(***************************************************************************)
(* Model of the perp_trader position manager (app/modules/strategy.py,     *)
(* app/modules/arbitrage_position.py), of the tasks it runs with, and of   *)
(* the aggregator of the data feed (app/modules/data_feed.py).             *)
(*                                                                         *)
(* Numbers.  Python floats are modelled by scaled integers:                *)
(*   - percentages and fractions (spreads, thresholds, taker fees,         *)
(*     funding rates) are counted in units of PctScale^-1, so 0.1 is       *)
(*     10000 and a taker fee of 0.001 is 100;                              *)
(*   - money is counted in 1/1000 USD, so usd_amount 5.5 is 5500;          *)
(*   - time is counted in milliseconds on one clock: time.time() * 1000    *)
(*     is `now`, loop.time() (seconds) is `now` / 1000, so a duration of   *)
(*     s seconds is s * 1000;                                              *)
(*   - contract amounts are counted in 10^-6 of a contract.                *)
(* A division rounds down where the float would not; the quotes below are  *)
(* chosen away from the thresholds so that the rounding decides nothing.   *)
(*                                                                         *)
(* The configuration is the one of settings.py.  config.consider_funding,  *)
(* which the two predicates read, is no field of BotConfig: the model      *)
(* takes it as an input, off in Spec and either way in SpecPred.           *)
(***************************************************************************)
EXTENDS Integers, Sequences, FiniteSets, TLC

VARIABLES
    now,                      \* the clock, ms
    feed_queue,               \* Strategy.feed_queue: deltas not yet taken
    pc,                       \* where process_feed is suspended
    spreads,                  \* process_positions: its argument, in dict order
    positions_to_close,       \* process_positions: local, keys of self.positions
    closing,                  \* positions whose close() is running
    closed_positions_markets, \* process_positions: local
    positions_to_open,        \* process_positions: local, in order
    open_idx,                 \* index in positions_to_open of the loop
    opening,                  \* the position whose open() is running, or NoPosition
    open_calls,               \* the open() calls of this cycle and their results
    positions,                \* Strategy.positions
    exchange_balances,        \* Strategy.exchange_balances
    funding_rates,            \* Strategy.funding_rates
    consider_funding,         \* config.consider_funding
    commission_cache,         \* Strategy._commission_cache
    submitted,                \* orders sent to the venues in this cycle, in order
    close_calls,              \* close() invocations of this cycle, in order
    pred_in,                  \* inputs of a call that is checked on its own
    pred_out                  \* its result

vars == << now, feed_queue, pc, spreads, positions_to_close, closing,
           closed_positions_markets, positions_to_open, open_idx, opening,
           open_calls, positions, exchange_balances, funding_rates,
           consider_funding, commission_cache, submitted, close_calls,
           pred_in, pred_out >>

-----------------------------------------------------------------------------
(* Bounds of the model *)

MaxQueue == 1
MaxTicks == 1

-----------------------------------------------------------------------------
(* Configuration (settings.py) and venue metadata *)

PctScale == 1000 * 100       \* units per 1 of a percentage or a fraction
UsdScale == 10 * 100         \* units per USD
MsPerSecond == 10 * 100      \* clock units per second
AmountScale == 1000 * 1000   \* units per contract

open_position_net_spread_threshold == PctScale \div 10           \* 0.1
close_position_raw_spread_threshold == (2 * PctScale) \div 100   \* 0.02
close_position_after_seconds == 3 * 60 * 60
analyze_arbitrage_max_data_age_ms == 400
open_position_max_data_age_ms == 200
close_position_max_data_age_ms == 200
usd_amount == (55 * UsdScale) \div 10                            \* 5.5
leverage == 1
size_buffer_factor == (105 * PctScale) \div 100                  \* 1.05
max_slippage_pct == 1 * PctScale                                 \* 1.0

\* exchange_by_id.keys(): main.py builds binance and bybit and keeps okx
\* prepared (lines 231-258); Strategy takes whatever exchanges it is given
Venues == {"binance", "bybit", "okx"}
\* the instruments, by their base currency
Markets == {"BTC", "ETH"}

\* exchange.markets[market]['taker']
Taker(exchange_id, market) == IF exchange_id = "binance" THEN 100 ELSE 150

\* exchange.markets[market]['limits']['cost']['min'], 0 when missing
CostMin(exchange_id, market) ==
    IF market = "ETH" /\ exchange_id = "bybit" THEN 20 * UsdScale
    ELSE IF exchange_id = "binance" THEN 5 * UsdScale ELSE 0

\* the step exchange.amount_to_precision(market, .) rounds down to
AmountStep(exchange_id, market) == IF exchange_id = "binance" THEN 10 ELSE 100

Max(a, b) == IF a >= b THEN a ELSE b
Min(a, b) == IF a <= b THEN a ELSE b

-----------------------------------------------------------------------------
(* Feed deltas.  A delta is change_feed_data of process_feed: a dict from  *)
(* exchange id to a dict from market to a quote, here a sequence of        *)
(* [exchange, markets] entries in the dict's order.                        *)

QuoteLo  == [bid |-> 9990,  ask |-> 10000]
QuoteMid == [bid |-> 10015, ask |-> 10025]
QuoteHi  == [bid |-> 10070, ask |-> 10080]

\* one market's quote, stamped ts
OneMarket(market, q, ts) ==
    [m \in {market} |-> [bid |-> q.bid, ask |-> q.ask, timestamp |-> ts]]

\* a venue's entry with a quote of both markets
TwoMarkets(btc, eth, ts) ==
    [ m \in Markets |->
        IF m = "BTC" THEN [bid |-> btc.bid, ask |-> btc.ask, timestamp |-> ts]
        ELSE [bid |-> eth.bid, ask |-> eth.ask, timestamp |-> ts] ]

\* the order in which Python iterates a set or dict of markets
CommonMarketsOrder == <<"BTC", "ETH">>

-----------------------------------------------------------------------------
(* Strategy.get_cached_commission and Strategy.analyze_arbitrage *)

\* the taker fees of the opening trades alone
Commission_OpenOnly(buy_exchange_id, sell_exchange_id, market) ==
    ( Taker(buy_exchange_id, market) + Taker(sell_exchange_id, market) ) * 100

\* the commission of a miss: the taker fees of opening and of closing
Commission(buy_exchange_id, sell_exchange_id, market) ==
    ( Taker(buy_exchange_id, market) + Taker(sell_exchange_id, market)
    + Taker(buy_exchange_id, market) + Taker(sell_exchange_id, market) ) * 100

\* the value get_cached_commission returns with the cache `cache`
GetCachedCommission(cache, buy_exchange_id, sell_exchange_id, market) ==
    LET cache_key == <<buy_exchange_id, sell_exchange_id, market>>
    IN  IF cache_key \in DOMAIN cache THEN cache[cache_key]
        ELSE Commission(buy_exchange_id, sell_exchange_id, market)

\* the spread taken relative to the buy price instead of the mid price
RawSpread_OverBuyPrice(buy_price, sell_price) ==
    ((sell_price - buy_price) * 100 * PctScale) \div buy_price

\* price_diff / mid_price * 100
RawSpread(buy_price, sell_price) ==
    ((sell_price - buy_price) * 2 * 100 * PctScale) \div (sell_price + buy_price)

\* the pairs product(exchange_data.keys(), repeat=2) yields, in order
Product(n) ==
    [k \in 1..(n * n) |-> <<((k - 1) \div n) + 1, ((k - 1) % n) + 1>>]

SpreadOf(cache, buy_entry, sell_entry, market) ==
    LET buy_data == buy_entry.markets[market]
        sell_data == sell_entry.markets[market]
        buy_price == buy_data.ask
        sell_price == sell_data.bid
        raw_spread == RawSpread(buy_price, sell_price)
        commission == GetCachedCommission(cache, buy_entry.exchange,
                                          sell_entry.exchange, market)
    IN  [ market |-> market,
          buy_exchange_id |-> buy_entry.exchange,
          buy_price |-> buy_price,
          sell_exchange_id |-> sell_entry.exchange,
          sell_price |-> sell_price,
          raw_spread |-> raw_spread,
          commission |-> commission,
          net_spread |-> raw_spread - commission,
          min_timestamp |-> Min(buy_data.timestamp, sell_data.timestamp) ]

\* the age gate on the buy venue's quote alone
PairSpreads_BuySideAge(cache, buy_entry, sell_entry, current_timestamp) ==
    LET common_markets == DOMAIN buy_entry.markets \cap DOMAIN sell_entry.markets
        Kept(market) ==
            /\ market \in common_markets
            /\ ~ ( current_timestamp - buy_entry.markets[market].timestamp
                   > analyze_arbitrage_max_data_age_ms )
        kept == SelectSeq(CommonMarketsOrder, Kept)
    IN  [i \in 1..Len(kept) |-> SpreadOf(cache, buy_entry, sell_entry, kept[i])]

\* the age gate on the newer of the two quotes
PairSpreads_NewestSide(cache, buy_entry, sell_entry, current_timestamp) ==
    LET common_markets == DOMAIN buy_entry.markets \cap DOMAIN sell_entry.markets
        Kept(market) ==
            /\ market \in common_markets
            /\ ~ ( current_timestamp
                     - Max(buy_entry.markets[market].timestamp,
                           sell_entry.markets[market].timestamp)
                   > analyze_arbitrage_max_data_age_ms )
        kept == SelectSeq(CommonMarketsOrder, Kept)
    IN  [i \in 1..Len(kept) |-> SpreadOf(cache, buy_entry, sell_entry, kept[i])]

\* the spreads one (buy, sell) pair adds, over its common markets
PairSpreads(cache, buy_entry, sell_entry, current_timestamp) ==
    LET common_markets == DOMAIN buy_entry.markets \cap DOMAIN sell_entry.markets
        Kept(market) ==
            /\ market \in common_markets
            /\ ~ ( current_timestamp
                     - Min(buy_entry.markets[market].timestamp,
                           sell_entry.markets[market].timestamp)
                   > analyze_arbitrage_max_data_age_ms )
        kept == SelectSeq(CommonMarketsOrder, Kept)
    IN  [i \in 1..Len(kept) |-> SpreadOf(cache, buy_entry, sell_entry, kept[i])]

\* the loop without the test buy_exchange_id == sell_exchange_id
RECURSIVE AnalyzeFrom_SelfPairs(_, _, _, _)
AnalyzeFrom_SelfPairs(cache, exchange_data, current_timestamp, k) ==
    LET n == Len(exchange_data)
        pair == Product(n)[k]
    IN  IF k > n * n THEN << >>
        ELSE PairSpreads(cache, exchange_data[pair[1]],
                         exchange_data[pair[2]], current_timestamp)
             \o AnalyzeFrom_SelfPairs(cache, exchange_data, current_timestamp,
                                      k + 1)

RECURSIVE AnalyzeFrom(_, _, _, _)
AnalyzeFrom(cache, exchange_data, current_timestamp, k) ==
    LET n == Len(exchange_data)
        pair == Product(n)[k]
    IN  IF k > n * n THEN << >>
        ELSE IF pair[1] = pair[2]
             THEN AnalyzeFrom(cache, exchange_data, current_timestamp, k + 1)
             ELSE PairSpreads(cache, exchange_data[pair[1]],
                              exchange_data[pair[2]], current_timestamp)
                  \o AnalyzeFrom(cache, exchange_data, current_timestamp, k + 1)

\* new_spreads.values(), in the dict's order (every key is inserted once)
AnalyzeArbitrage(cache, exchange_data, current_timestamp) ==
    AnalyzeFrom(cache, exchange_data, current_timestamp, 1)

SpreadKey(spread) ==
    <<spread.market, spread.buy_exchange_id, spread.sell_exchange_id>>

\* _commission_cache after an analysis that returned new_spreads
CacheAfter(cache, new_spreads) ==
    LET seen == { <<new_spreads[i].buy_exchange_id,
                    new_spreads[i].sell_exchange_id,
                    new_spreads[i].market>> : i \in 1..Len(new_spreads) }
    IN  [ key \in DOMAIN cache \cup seen |->
            IF key \in DOMAIN cache THEN cache[key]
            ELSE Commission(key[1], key[2], key[3]) ]

-----------------------------------------------------------------------------
(* Strategy.have_to_open_position and Strategy.have_to_close_position *)

\* self.funding_rates.get(exchange_id, {}).get(market, 0)
FundingRate(rates, exchange_id, market) ==
    IF exchange_id \in DOMAIN rates
    THEN IF market \in DOMAIN rates[exchange_id]
         THEN rates[exchange_id][market] ELSE 0
    ELSE 0

FundingAdj(cf, rates, spread_data) ==
    IF cf
    THEN ( FundingRate(rates, spread_data.buy_exchange_id, spread_data.market)
         - FundingRate(rates, spread_data.sell_exchange_id, spread_data.market)
         ) * 100
    ELSE 0

\* have_to_open_position that takes data exactly at the age limit as fresh
HaveToOpenPosition_AgeInclusive(spread_data, current_timestamp, cf, rates) ==
    LET effective_net_spread ==
            spread_data.net_spread - FundingAdj(cf, rates, spread_data)
        age == current_timestamp - spread_data.min_timestamp
    IN  /\ effective_net_spread >= open_position_net_spread_threshold
        /\ age <= open_position_max_data_age_ms

\* cf is config.consider_funding, rates is self.funding_rates
HaveToOpenPosition(spread_data, current_timestamp, cf, rates) ==
    LET effective_net_spread ==
            spread_data.net_spread - FundingAdj(cf, rates, spread_data)
        net_spread_ok ==
            effective_net_spread >= open_position_net_spread_threshold
        age == current_timestamp - spread_data.min_timestamp
        age_ok == age < open_position_max_data_age_ms
    IN  net_spread_ok /\ age_ok

\* the time-based branch that fires from the deadline itself on
TimeBasedClose_Inclusive(opened_at, current_time) ==
    opened_at + close_position_after_seconds * MsPerSecond <= current_time

TimeBasedClose(opened_at, current_time) ==
    opened_at + close_position_after_seconds * MsPerSecond < current_time

\* have_to_close_position whose time-based branch skips the age gate
HaveToClosePosition_TimeIgnoresAge(position, spread_data, current_time, current_timestamp, cf, rates) ==
    LET time_based_close == TimeBasedClose(position.opened_at, current_time)
        effective_raw_spread ==
            spread_data.raw_spread - FundingAdj(cf, rates, spread_data)
        spread_based_close ==
            effective_raw_spread <= close_position_raw_spread_threshold
        age == current_timestamp - spread_data.min_timestamp
        age_ok == age < close_position_max_data_age_ms
    IN  time_based_close \/ (spread_based_close /\ age_ok)

\* current_time is loop.time(), current_timestamp is time.time() * 1000
HaveToClosePosition(position, spread_data, current_time, current_timestamp, cf, rates) ==
    LET time_based_close == TimeBasedClose(position.opened_at, current_time)
        effective_raw_spread ==
            spread_data.raw_spread - FundingAdj(cf, rates, spread_data)
        spread_based_close ==
            effective_raw_spread <= close_position_raw_spread_threshold
        age == current_timestamp - spread_data.min_timestamp
        age_ok == age < close_position_max_data_age_ms
    IN  (time_based_close \/ spread_based_close) /\ age_ok

-----------------------------------------------------------------------------
(* ArbitragePosition *)

None == 0 - 1            \* a numeric attribute open() has not set yet
InvalidOrder == 0 - 2    \* get_order_amount raised InvalidOrder
NoPosition == [market |-> "none"]

\* ArbitragePosition(...) as process_positions builds it
NewPosition(spread_data) ==
    [ market |-> spread_data.market,
      buy_exchange |-> spread_data.buy_exchange_id,
      sell_exchange |-> spread_data.sell_exchange_id,
      buy_price |-> spread_data.buy_price,
      sell_price |-> spread_data.sell_price,
      usd_amount |-> usd_amount,
      leverage |-> leverage,
      order_type |-> "market",
      trailing_stop_mode |-> FALSE,
      bought_amount |-> None,
      sold_amount |-> None,
      opened_at |-> None ]

PositionKey(position) ==
    <<position.market, position.buy_exchange, position.sell_exchange>>

AmountToPrecision(exchange_id, market, amount) ==
    (amount \div AmountStep(exchange_id, market)) * AmountStep(exchange_id, market)

\* limits.cost.min or 5
MinCostOr5(exchange_id, market) ==
    IF CostMin(exchange_id, market) = 0 THEN 5 * UsdScale
    ELSE CostMin(exchange_id, market)

\* get_order_amount that holds the notional against the buy venue's minimum
\* alone
GetOrderAmount_BuyVenueMin(position) ==
    LET min_notional == MinCostOr5(position.buy_exchange, position.market)
        notional == position.usd_amount
        position_notional == notional * position.leverage
        amount_raw == (position_notional * 2 * (AmountScale \div UsdScale))
                      \div (position.buy_price + position.sell_price)
        buy_amount == AmountToPrecision(position.buy_exchange, position.market,
                                        amount_raw)
        sell_amount == AmountToPrecision(position.sell_exchange, position.market,
                                         amount_raw)
        max_amount == Max(buy_amount, sell_amount)
        buy_amount2 == AmountToPrecision(position.buy_exchange, position.market,
                                         max_amount)
        sell_amount2 == AmountToPrecision(position.sell_exchange, position.market,
                                          max_amount)
    IN  IF notional < min_notional THEN InvalidOrder
        ELSE IF buy_amount # sell_amount THEN Min(buy_amount2, sell_amount2)
        ELSE Min(buy_amount, sell_amount)

GetOrderAmount(position) ==
    LET min_notional == Max(MinCostOr5(position.buy_exchange, position.market),
                            MinCostOr5(position.sell_exchange, position.market))
        notional == position.usd_amount
        position_notional == notional * position.leverage
        \* position_notional / mid_price, mid_price = (buy + sell) / 2
        amount_raw == (position_notional * 2 * (AmountScale \div UsdScale))
                      \div (position.buy_price + position.sell_price)
        buy_amount == AmountToPrecision(position.buy_exchange, position.market,
                                        amount_raw)
        sell_amount == AmountToPrecision(position.sell_exchange, position.market,
                                         amount_raw)
        max_amount == Max(buy_amount, sell_amount)
        buy_amount2 == AmountToPrecision(position.buy_exchange, position.market,
                                         max_amount)
        sell_amount2 == AmountToPrecision(position.sell_exchange, position.market,
                                          max_amount)
    IN  IF notional < min_notional THEN InvalidOrder
        ELSE IF buy_amount # sell_amount THEN Min(buy_amount2, sell_amount2)
        ELSE Min(buy_amount, sell_amount)

\* exchange.create_order_ws(market, 'market', side, amount)
MarketOrder(exchange_id, market, side, amount) ==
    [ exchange |-> exchange_id, market |-> market, type |-> "market",
      side |-> side, amount |-> amount, reduceOnly |-> FALSE ]

\* the closing order without the reduceOnly parameter
ReduceOnlyOrder_Plain(exchange_id, market, side, amount) ==
    [ exchange |-> exchange_id, market |-> market, type |-> "market",
      side |-> side, amount |-> amount, reduceOnly |-> FALSE ]

\* exchange.create_market_order_ws(market, side, amount, {'reduceOnly': True})
ReduceOnlyOrder(exchange_id, market, side, amount) ==
    [ exchange |-> exchange_id, market |-> market, type |-> "market",
      side |-> side, amount |-> amount, reduceOnly |-> TRUE ]

\* exchange.cancel_all_orders(market)
CancelAllOrders(exchange_id, market) ==
    [ exchange |-> exchange_id, market |-> market, type |-> "cancel_all",
      side |-> "none", amount |-> 0, reduceOnly |-> FALSE ]

\* the requests the two primary legs of open() send (order_type 'market')
PrimaryOrders(position, amount) ==
    << MarketOrder(position.buy_exchange, position.market, "buy", amount),
       MarketOrder(position.sell_exchange, position.market, "sell", amount) >>

\* the request close_position sends for one leg, if any
ClosePositionOrders(position, side) ==
    LET amount == IF side = "buy" THEN position.bought_amount
                  ELSE position.sold_amount
        exchange_id == IF side = "buy" THEN position.buy_exchange
                       ELSE position.sell_exchange
        side_to_close == IF side = "buy" THEN "sell" ELSE "buy"
    IN  IF amount # None /\ amount # 0 /\ amount > 0
        THEN << ReduceOnlyOrder(exchange_id, position.market, side_to_close,
                                amount) >>
        ELSE << >>

\* the requests close() gathers (trailing_stop_mode off)
CloseOrders(position) ==
    ClosePositionOrders(position, "buy")
    \o ClosePositionOrders(position, "sell")
    \o << CancelAllOrders(position.buy_exchange, position.market),
          CancelAllOrders(position.sell_exchange, position.market) >>

-----------------------------------------------------------------------------
(* Dicts *)

Put(d, k, v) == [x \in DOMAIN d \cup {k} |-> IF x = k THEN v ELSE d[x]]
Del(d, ks) == [x \in DOMAIN d \ ks |-> d[x]]
EmptyDict == [x \in {} |-> 0]

\* self.exchange_balances.get(exchange_id, 0)
BalanceGet(balances, exchange_id) ==
    IF exchange_id \in DOMAIN balances THEN balances[exchange_id] ELSE 0

\* position.usd_amount * self.config.position.size_buffer_factor
PositionSize(position) == (position.usd_amount * size_buffer_factor) \div PctScale

-----------------------------------------------------------------------------
(* Strategy.process_positions, cut at its awaits *)

SpreadKeys(sp) == { SpreadKey(sp[i]) : i \in 1..Len(sp) }
SpreadAt(sp, key) == sp[CHOOSE i \in 1..Len(sp) : SpreadKey(sp[i]) = key]

\* the selection that takes the first spread of the position's instrument,
\* whatever its venues
PositionsToClose_ByMarket(pos, sp, t, cf, rates) ==
    LET Of(k) == { i \in 1..Len(sp) : sp[i].market = pos[k].market }
        Wanted(k) ==
            /\ k \in DOMAIN pos
            /\ Of(k) # {}
            /\ HaveToClosePosition(pos[k],
                                   sp[CHOOSE i \in Of(k) :
                                        \A j \in Of(k) : i <= j],
                                   t, t, cf, rates)
    IN  SelectSeq(CommonMarketsOrder, Wanted)

\* lines 265-270: the keys of self.positions to close, in order
PositionsToClose(pos, sp, t, cf, rates) ==
    LET Wanted(k) ==
            /\ k \in DOMAIN pos
            /\ PositionKey(pos[k]) \in SpreadKeys(sp)
            /\ HaveToClosePosition(pos[k], SpreadAt(sp, PositionKey(pos[k])),
                                   t, t, cf, rates)
    IN  SelectSeq(CommonMarketsOrder, Wanted)

RECURSIVE Flatten(_)
Flatten(ss) == IF ss = << >> THEN << >> ELSE Head(ss) \o Flatten(Tail(ss))

\* the candidates without the test on closed_positions_markets
PositionsToOpen_ClosedToo(sp, closed, t, cf, rates) ==
    LET Wanted(spread_data) == HaveToOpenPosition(spread_data, t, cf, rates)
        kept == SelectSeq(sp, Wanted)
    IN  [i \in 1..Len(kept) |-> NewPosition(kept[i])]

\* lines 285-304: the positions to open, in the order of spreads.values()
PositionsToOpen(sp, closed, t, cf, rates) ==
    LET Wanted(spread_data) ==
            /\ spread_data.market \notin closed
            /\ HaveToOpenPosition(spread_data, t, cf, rates)
        kept == SelectSeq(sp, Wanted)
    IN  [i \in 1..Len(kept) |-> NewPosition(kept[i])]

\* the loop without the test `market in self.positions`
Skipped_BalanceOnly(position, pos, balances) ==
    \/ BalanceGet(balances, position.buy_exchange) < PositionSize(position)
    \/ BalanceGet(balances, position.sell_exchange) < PositionSize(position)

\* the loop with a pre-flight check of the buy venue's balance alone
Skipped_BuyBalanceOnly(position, pos, balances) ==
    \/ position.market \in DOMAIN pos
    \/ BalanceGet(balances, position.buy_exchange) < PositionSize(position)

\* lines 322-345: the loop skips this candidate without calling open()
Skipped(position, pos, balances) ==
    \/ position.market \in DOMAIN pos
    \/ BalanceGet(balances, position.buy_exchange) < PositionSize(position)
    \/ BalanceGet(balances, position.sell_exchange) < PositionSize(position)

\* the first index from i on whose open() reaches its await, or Len + 1
RECURSIVE NextAwait(_, _, _, _)
NextAwait(cands, i, pos, balances) ==
    IF i > Len(cands) THEN i
    ELSE IF \/ Skipped(cands[i], pos, balances)
            \/ GetOrderAmount(cands[i]) = InvalidOrder
         THEN NextAwait(cands, i + 1, pos, balances)
         ELSE i

OpenCall(position, buy_order, sell_order, ret) ==
    [ key |-> PositionKey(position), buy_order |-> buy_order,
      sell_order |-> sell_order, ret |-> ret ]

\* the open() calls from i up to j that returned False on InvalidOrder
RECURSIVE InvalidCalls(_, _, _, _, _)
InvalidCalls(cands, i, j, pos, balances) ==
    IF i >= j \/ i > Len(cands) THEN << >>
    ELSE ( IF Skipped(cands[i], pos, balances) THEN << >>
           ELSE << OpenCall(cands[i], "none", "none", "False") >> )
         \o InvalidCalls(cands, i + 1, j, pos, balances)

\* lines 320-356 from candidate i on, up to the next await or the return
OpenLoop(cands, i, pos, balances, calls, sent) ==
    LET j == NextAwait(cands, i, pos, balances)
        calls2 == calls \o InvalidCalls(cands, i, j, pos, balances)
    IN  /\ positions_to_open' = cands
        /\ positions' = pos
        /\ exchange_balances' = balances
        /\ open_calls' = calls2
        /\ IF j > Len(cands)
           THEN /\ pc' = "returned"
                /\ open_idx' = 0
                /\ opening' = NoPosition
                /\ submitted' = sent
           ELSE /\ pc' = "open_await"
                /\ open_idx' = j
                /\ opening' = cands[j]
                /\ submitted' = sent \o PrimaryOrders(cands[j],
                                                      GetOrderAmount(cands[j]))

\* an open phase that first gives the size of every position just closed
\* back to the balances of its two venues
OpenPhase_Credited(sp, closed, pos, sent) ==
    LET cands == PositionsToOpen(sp, closed, now, consider_funding, funding_rates)
        Credit(v) ==
            Cardinality({ k \in DOMAIN positions :
                            /\ positions[k].market \in closed
                            /\ v \in { positions[k].buy_exchange,
                                       positions[k].sell_exchange } })
              * ((usd_amount * size_buffer_factor) \div PctScale)
        credited == [v \in DOMAIN exchange_balances |->
                       exchange_balances[v] + Credit(v)]
    IN  OpenLoop(cands, 1, pos, credited, << >>, sent)

\* lines 285-356: the open phase, entered with the closes done
OpenPhase(sp, closed, pos, sent) ==
    LET cands == PositionsToOpen(sp, closed, now, consider_funding, funding_rates)
    IN  OpenLoop(cands, 1, pos, exchange_balances, << >>, sent)

\* process_positions that starts the close() calls and goes on to the open
\* phase without awaiting them
ProcessPositions_NoAwait(sp) ==
    LET to_close == PositionsToClose(positions, sp, now, consider_funding,
                                     funding_rates)
        closed == { positions[to_close[i]].market : i \in 1..Len(to_close) }
    IN  /\ spreads' = sp
        /\ positions_to_close' = to_close
        /\ closing' = { to_close[i] : i \in 1..Len(to_close) }
        /\ close_calls' = to_close
        /\ closed_positions_markets' = closed
        /\ OpenPhase(sp, closed, Del(positions, closed),
                     Flatten([i \in 1..Len(to_close) |->
                                CloseOrders(positions[to_close[i]])]))

\* lines 262-283: process_positions up to its first await
ProcessPositions(sp) ==
    LET to_close == PositionsToClose(positions, sp, now, consider_funding,
                                     funding_rates)
    IN  /\ spreads' = sp
        /\ positions_to_close' = to_close
        /\ IF to_close # << >>
           THEN /\ pc' = "closing"
                /\ closing' = { to_close[i] : i \in 1..Len(to_close) }
                /\ close_calls' = to_close
                /\ submitted' =
                      Flatten([i \in 1..Len(to_close) |->
                                 CloseOrders(positions[to_close[i]])])
                /\ closed_positions_markets' = {}
                /\ positions_to_open' = << >>
                /\ open_idx' = 0
                /\ opening' = NoPosition
                /\ open_calls' = << >>
                /\ UNCHANGED << positions, exchange_balances >>
           ELSE /\ closing' = {}
                /\ close_calls' = << >>
                /\ closed_positions_markets' = {}
                /\ OpenPhase(sp, {}, positions, << >>)

\* a close that leaves the entry in self.positions
RemoveClosed_Keep(pos, markets) == pos

\* lines 281-283: del self.positions[position.market] for every closed one
RemoveClosed(pos, markets) == Del(pos, markets)

\* lines 277-283: the gather of the close() calls returns
CloseDone ==
    /\ pc = "closing"
    /\ LET closed == { positions[positions_to_close[i]].market :
                        i \in 1..Len(positions_to_close) }
           pos == RemoveClosed(positions, closed)
       IN  /\ closing' = {}
           /\ closed_positions_markets' = closed
           /\ OpenPhase(spreads, closed, pos, submitted)
    /\ UNCHANGED << now, feed_queue, spreads, positions_to_close, funding_rates,
                    consider_funding, commission_cache, close_calls,
                    pred_in, pred_out >>

\* what the two fetch_positions calls can report for legs just placed, as
\* <<buy venue, sell venue>>: the fills, or [] (0 contracts) on the buy venue
Reported(amount) == { <<amount, amount>>, <<0, amount>> }

\* primary_orders_ok that looks at the buy leg only
PrimaryOrdersOk_BuyOnly(buy_order, sell_order) == ~ (buy_order = "exc")

\* arbitrage_position.py lines 324-336: primary_orders_ok
PrimaryOrdersOk(buy_order, sell_order) ==
    ~ (buy_order = "exc") /\ ~ (sell_order = "exc")

\* an open loop that logs the exception of an open() and goes on with the
\* next candidate
FetchPositionsRaised_LoopGoesOn(position, buy_order, sell_order) ==
    OpenLoop(positions_to_open, open_idx + 1, positions, exchange_balances,
             Append(open_calls,
                    OpenCall(position, buy_order, sell_order, "raise")),
             submitted)

\* a fetch_positions of get_contracts_amount raises (arbitrage_position.py
\* lines 123-125, 451-454): the exception leaves open() and
\* process_positions, which has no handler, and process_feed logs it
\* (strategy.py lines 173-176)
FetchPositionsRaised(position, buy_order, sell_order) ==
    /\ pc' = "returned"
    /\ open_idx' = 0
    /\ opening' = NoPosition
    /\ open_calls' = Append(open_calls,
                            OpenCall(position, buy_order, sell_order, "raise"))
    /\ UNCHANGED << positions_to_open, positions, exchange_balances,
                    submitted >>

\* open() resumes after its gather (arbitrage_position.py lines 317-489) and
\* process_positions goes on from line 346
OpenDone ==
    /\ pc = "open_await"
    /\ LET position == positions_to_open[open_idx]
           amount == GetOrderAmount(position)
           size == PositionSize(position)
       IN  \E buy_order \in {"ok", "exc"}, sell_order \in {"ok", "exc"} :
             IF ~ PrimaryOrdersOk(buy_order, sell_order)
             THEN \* primary_orders_ok is False: open() returns False
                  OpenLoop(positions_to_open, open_idx + 1, positions,
                           exchange_balances,
                           Append(open_calls,
                                  OpenCall(position, buy_order, sell_order,
                                           "False")),
                           submitted)
             ELSE \/ FetchPositionsRaised(position, buy_order, sell_order)
                  \/ \E contracts \in Reported(amount) :
                       LET opened == [position EXCEPT
                                        !.bought_amount = contracts[1],
                                        !.sold_amount = contracts[2],
                                        !.opened_at = now]
                       IN  OpenLoop(positions_to_open, open_idx + 1,
                                    Put(positions, position.market, opened),
                                    [exchange_balances EXCEPT
                                       ![position.buy_exchange] = @ - size,
                                       ![position.sell_exchange] = @ - size],
                                    Append(open_calls,
                                           OpenCall(position, buy_order,
                                                    sell_order, "True")),
                                    submitted)
    /\ UNCHANGED << now, feed_queue, spreads, positions_to_close, closing,
                    closed_positions_markets, funding_rates, consider_funding,
                    commission_cache, close_calls, pred_in, pred_out >>

-----------------------------------------------------------------------------
(* Strategy.process_feed *)

\* a loop that takes the next delta while process_positions is suspended
AtGet_Suspended == pc \in {"get", "closing", "open_await"}

\* lines 118-131: the loop is back at feed_queue.get() only after the awaited
\* process_positions of the delta before has returned or raised
AtGet == pc = "get"

\* lines 119-131: one delta is taken and handled up to the first await.
\* The map process_feed accumulates in its local `spreads` (line 128) goes
\* only into the UI frame of lines 132-170, which config.use_ui (off) guards
ProcessFeed ==
    /\ AtGet
    /\ feed_queue # << >>
    /\ LET change_feed_data == Head(feed_queue)
           new_spreads == AnalyzeArbitrage(commission_cache, change_feed_data, now)
       IN  /\ feed_queue' = Tail(feed_queue)
           /\ IF Len(change_feed_data) < 2
              THEN UNCHANGED << pc, spreads, positions_to_close, closing,
                                closed_positions_markets, positions_to_open,
                                open_idx, opening, open_calls, positions,
                                exchange_balances, commission_cache, submitted,
                                close_calls >>
              ELSE /\ commission_cache' = CacheAfter(commission_cache, new_spreads)
                   /\ IF new_spreads = << >>
                      THEN UNCHANGED << pc, spreads, positions_to_close, closing,
                                        closed_positions_markets,
                                        positions_to_open, open_idx, opening,
                                        open_calls, positions, exchange_balances,
                                        submitted, close_calls >>
                      ELSE ProcessPositions(new_spreads)
    /\ UNCHANGED << now, funding_rates, consider_funding, pred_in, pred_out >>

\* lines 171-176: process_positions has returned or raised; task_done() and
\* the loop goes back to feed_queue.get(), the locals of the call are gone
TaskDone ==
    /\ pc = "returned"
    /\ pc' = "get"
    /\ spreads' = << >>
    /\ positions_to_close' = << >>
    /\ closed_positions_markets' = {}
    /\ positions_to_open' = << >>
    /\ open_calls' = << >>
    /\ submitted' = << >>
    /\ close_calls' = << >>
    /\ UNCHANGED << now, feed_queue, closing, open_idx, opening, positions,
                    exchange_balances, funding_rates, consider_funding,
                    commission_cache, pred_in, pred_out >>

-----------------------------------------------------------------------------
(* The other tasks and the environment.  Another task runs only while      *)
(* process_feed is suspended at an await.                                  *)

Suspended == pc \in {"get", "closing", "open_await"}

Entry(exchange_id, markets) == [exchange |-> exchange_id, markets |-> markets]

\* the deltas process_feed can be given at time ts.  DataFeed.collect_feed
\* puts deltas of one market (data_feed.py lines 110-123); process_feed and
\* analyze_arbitrage take a dict of any number of markets, and the third
\* and the fourth delta have two.  The fourth gives an ETH candidate whose
\* sell venue asks for a notional above usd_amount, then a BTC candidate
Deltas(ts) ==
    { << Entry("binance", OneMarket("BTC", QuoteLo, ts)) >>,
      << Entry("binance", OneMarket("BTC", QuoteLo, ts)),
         Entry("bybit", OneMarket("BTC", QuoteHi, ts)),
         Entry("okx", OneMarket("BTC", QuoteHi, ts)) >>,
      << Entry("binance", TwoMarkets(QuoteHi, QuoteLo, ts)),
         Entry("bybit", TwoMarkets(QuoteLo, QuoteMid, ts)),
         Entry("okx", TwoMarkets(QuoteMid, QuoteHi, ts)) >>,
      << Entry("binance", TwoMarkets(QuoteLo, QuoteLo, ts)),
         Entry("bybit", TwoMarkets(QuoteLo, QuoteHi, ts)),
         Entry("okx", TwoMarkets(QuoteHi, QuoteLo, ts)) >> }

\* DataFeed.collect_feed puts a delta (data_feed.py line 123)
FeedPut ==
    /\ Suspended
    /\ Len(feed_queue) < MaxQueue
    /\ \E delta \in Deltas(now) : feed_queue' = Append(feed_queue, delta)
    /\ UNCHANGED << now, pc, spreads, positions_to_close, closing,
                    closed_positions_markets, positions_to_open, open_idx,
                    opening, open_calls, positions, exchange_balances,
                    funding_rates, consider_funding, commission_cache,
                    submitted, close_calls, pred_in, pred_out >>

\* the clock advances in steps of the data-age limit of the predicates
TickStep == open_position_max_data_age_ms

Tick ==
    /\ Suspended
    /\ now \div TickStep < MaxTicks
    /\ now' = now + TickStep
    /\ UNCHANGED << feed_queue, pc, spreads, positions_to_close, closing,
                    closed_positions_markets, positions_to_open, open_idx,
                    opening, open_calls, positions, exchange_balances,
                    funding_rates, consider_funding, commission_cache,
                    submitted, close_calls, pred_in, pred_out >>

\* free balances the venues can report, one per venue
BalanceMaps ==
    { [v \in Venues |-> 0], [v \in Venues |-> 12 * UsdScale] }

\* Strategy.fetch_balance_data, lines 362-375: a round that fetched from every
\* venue replaces the map
FetchBalanceData ==
    /\ Suspended
    /\ \E balances \in BalanceMaps : exchange_balances' = balances
    /\ UNCHANGED << now, feed_queue, pc, spreads, positions_to_close, closing,
                    closed_positions_markets, positions_to_open, open_idx,
                    opening, open_calls, positions, funding_rates,
                    consider_funding, commission_cache, submitted, close_calls,
                    pred_in, pred_out >>

-----------------------------------------------------------------------------

NoPred == [op |-> "none"]

Init ==
    /\ now = 0
    /\ feed_queue = << >>
    /\ pc = "get"
    /\ spreads = << >>
    /\ positions_to_close = << >>
    /\ closing = {}
    /\ closed_positions_markets = {}
    /\ positions_to_open = << >>
    /\ open_idx = 0
    /\ opening = NoPosition
    /\ open_calls = << >>
    /\ positions = EmptyDict
    /\ exchange_balances = EmptyDict
    /\ funding_rates = EmptyDict
    /\ consider_funding = FALSE
    /\ commission_cache = EmptyDict
    /\ submitted = << >>
    /\ close_calls = << >>
    /\ pred_in = NoPred
    /\ pred_out = FALSE

Next ==
    \/ ProcessFeed
    \/ CloseDone
    \/ OpenDone
    \/ TaskDone
    \/ FeedPut
    \/ Tick
    \/ FetchBalanceData

Spec == Init /\ [][Next]_vars

-----------------------------------------------------------------------------
(* Shutdown.  The tasks of Strategy run in one asyncio.TaskGroup           *)
(* (base.py lines 25-35); when the group is cancelled, process_feed gets   *)
(* CancelledError at the await it is suspended on.                         *)

\* what has become of a primary order whose request was cancelled while it
\* was awaited: the venue has placed it, or it never got there
CancelledLeg == {"ok", "cancelled"}

\* CancelledError is raised at the await process_feed is suspended on.  At
\* feed_queue.get() it is raised outside the try of lines 120-176; inside
\* process_positions it goes through open() or the gather of the closes,
\* which catch nothing, up to `except asyncio.CancelledError: break` (lines
\* 171-172).  The gather of open() (arbitrage_position.py lines 317-319)
\* cancels the two placements it was waiting on; lines 347-349 do not run.
Cancel ==
    /\ Suspended
    /\ pc' = "cancelled"
    /\ IF pc = "open_await"
       THEN \E buy_order \in CancelledLeg, sell_order \in CancelledLeg :
              open_calls' = Append(open_calls,
                                   OpenCall(opening, buy_order, sell_order,
                                            "cancelled"))
       ELSE open_calls' = open_calls
    /\ opening' = NoPosition
    /\ open_idx' = 0
    /\ closing' = {}
    /\ UNCHANGED << now, feed_queue, spreads, positions_to_close,
                    closed_positions_markets, positions_to_open, positions,
                    exchange_balances, funding_rates, consider_funding,
                    commission_cache, submitted, close_calls, pred_in,
                    pred_out >>

NextCancel == Next \/ Cancel

SpecCancel == Init /\ [][NextCancel]_vars

-----------------------------------------------------------------------------
(* The two predicates on their own: SpecPred calls have_to_open_position   *)
(* and have_to_close_position on inputs around every boundary they test.   *)

\* a funding rate of 0.0001, which moves a spread by 0.01
PredRate == PctScale \div 10000

\* self.funding_rates: no entry, the buy venue alone, the sell venue alone,
\* both venues
PredRates ==
    { EmptyDict,
      [v \in {"binance"} |-> [m \in {"BTC"} |-> PredRate]],
      [v \in {"bybit"} |-> [m \in {"BTC"} |-> PredRate]],
      [v \in {"binance", "bybit"} |-> [m \in {"BTC"} |-> PredRate]] }

\* spreads at, next to and one funding adjustment away from a threshold
PredAround(threshold) ==
    { threshold - PredRate * 100, threshold - 1, threshold, threshold + 1,
      threshold + PredRate * 100 - 1, threshold + PredRate * 100 }

\* time.time() * 1000 when the spread was measured
PredMinTimestamp == 5 * MsPerSecond

\* data ages at and next to a limit
PredAges(limit) == { limit - 1, limit, limit + 1 }

\* loop.time() at the call, for a position opened at 0: before, at and
\* after opened_at + close_position_after_seconds
PredTimes ==
    { close_position_after_seconds * MsPerSecond - 1,
      close_position_after_seconds * MsPerSecond,
      close_position_after_seconds * MsPerSecond + 1 }

PredSpreadData(net_spread, raw_spread) ==
    [ market |-> "BTC", buy_exchange_id |-> "binance",
      sell_exchange_id |-> "bybit", net_spread |-> net_spread,
      raw_spread |-> raw_spread, min_timestamp |-> PredMinTimestamp ]

\* an open position of the spread's key, opened at loop time 0
PredPosition ==
    [ NewPosition([ market |-> "BTC", buy_exchange_id |-> "binance",
                    sell_exchange_id |-> "bybit", buy_price |-> QuoteLo.ask,
                    sell_price |-> QuoteHi.bid ])
      EXCEPT !.opened_at = 0 ]

PredUnchanged ==
    UNCHANGED << now, feed_queue, pc, spreads, positions_to_close, closing,
                 closed_positions_markets, positions_to_open, open_idx,
                 opening, open_calls, positions, exchange_balances,
                 funding_rates, consider_funding, commission_cache,
                 submitted, close_calls >>

\* a call of have_to_open_position
PredOpen ==
    /\ \E net_spread \in PredAround(open_position_net_spread_threshold),
          age \in PredAges(open_position_max_data_age_ms),
          cf \in BOOLEAN, rates \in PredRates :
         LET spread_data == PredSpreadData(net_spread, net_spread)
             current_timestamp == PredMinTimestamp + age
         IN  /\ pred_in' = [ op |-> "open", spread_data |-> spread_data,
                             opened_at |-> None, current_time |-> 0,
                             current_timestamp |-> current_timestamp,
                             cf |-> cf, rates |-> rates ]
             /\ pred_out' = HaveToOpenPosition(spread_data, current_timestamp,
                                               cf, rates)
    /\ PredUnchanged

\* a call of have_to_close_position
PredClose ==
    /\ \E raw_spread \in PredAround(close_position_raw_spread_threshold),
          age \in PredAges(close_position_max_data_age_ms),
          current_time \in PredTimes, cf \in BOOLEAN,
          rates \in PredRates :
         LET spread_data == PredSpreadData(raw_spread, raw_spread)
             current_timestamp == PredMinTimestamp + age
         IN  /\ pred_in' = [ op |-> "close", spread_data |-> spread_data,
                             opened_at |-> PredPosition.opened_at,
                             current_time |-> current_time,
                             current_timestamp |-> current_timestamp,
                             cf |-> cf, rates |-> rates ]
             /\ pred_out' = HaveToClosePosition(PredPosition, spread_data,
                                                current_time,
                                                current_timestamp, cf, rates)
    /\ PredUnchanged

NextPred == PredOpen \/ PredClose

SpecPred == Init /\ [][NextPred]_vars

-----------------------------------------------------------------------------
(* The selection of the positions to close on its own: SpecSelect runs     *)
(* lines 265-270 of process_positions on maps of one or two positions and  *)
(* on spreads of their keys and of other keys, before and after the        *)
(* positions' holding time.  pred_in holds the inputs, pred_out the        *)
(* markets of the positions selected.                                      *)

\* keys of spreads: the key of the BTC position, its mirror, the instrument
\* on another pair of venues, and the key of the ETH position
SelectKeys ==
    << <<"BTC", "binance", "bybit">>, <<"BTC", "bybit", "binance">>,
       <<"BTC", "binance", "okx">>, <<"ETH", "binance", "bybit">> >>

\* a spread of a key, measured 100 ms before the call
SelectSpread(key, raw_spread, current_timestamp) ==
    [ market |-> key[1], buy_exchange_id |-> key[2],
      sell_exchange_id |-> key[3], net_spread |-> raw_spread,
      raw_spread |-> raw_spread, min_timestamp |-> current_timestamp - 100 ]

\* self.positions: the BTC position, or the BTC and an ETH position, opened
\* at loop time 0
SelectPositions ==
    LET eth == [ NewPosition([ market |-> "ETH", buy_exchange_id |-> "binance",
                               sell_exchange_id |-> "bybit",
                               buy_price |-> QuoteLo.ask,
                               sell_price |-> QuoteHi.bid ])
                 EXCEPT !.opened_at = 0 ]
    IN  { [m \in {"BTC"} |-> PredPosition],
          [m \in {"BTC", "ETH"} |-> IF m = "BTC" THEN PredPosition ELSE eth] }

\* the spreads of a delta: any of the keys, each at or just above the raw
\* spread that closes
SelectSpreads(current_timestamp) ==
    { [i \in 1..Len(kept) |-> SelectSpread(kept[i][1], kept[i][2],
                                           current_timestamp)] :
        kept \in { SelectSeq([j \in 1..Len(SelectKeys) |->
                                << SelectKeys[j], raw[j] >>],
                             LAMBDA e : e[1] \in keys) :
                     keys \in SUBSET { SelectKeys[j] : j \in 1..Len(SelectKeys) },
                     raw \in [1..Len(SelectKeys) ->
                                { close_position_raw_spread_threshold,
                                  close_position_raw_spread_threshold + 1 }] } }

\* one run of lines 265-270
SelectToClose ==
    /\ \E pos \in SelectPositions, current_time \in PredTimes :
         \E sp \in SelectSpreads(current_time) :
           /\ pred_in' = [ op |-> "select", positions |-> pos, spreads |-> sp,
                           current_time |-> current_time ]
           /\ pred_out' = PositionsToClose(pos, sp, current_time, FALSE,
                                           EmptyDict)
    /\ PredUnchanged

NextSelect == SelectToClose

SpecSelect == Init /\ [][NextSelect]_vars

-----------------------------------------------------------------------------
(* Strategy.analyze_arbitrage on its own: SpecAnalyze calls it again and   *)
(* again on one Strategy, whose commission cache the calls fill.           *)

\* quotes of a venue whose bid and ask are the same price
QuoteFlatLo == [bid |-> 10000, ask |-> 10000]
QuoteFlatHi == [bid |-> 10070, ask |-> 10070]

\* time.time() * 1000 at the call
AnalyzeNow == 10 * MsPerSecond

\* ages of a venue's quotes at the call: fresh, exactly at
\* analyze_arbitrage_max_data_age_ms, just past it
AnalyzeAges ==
    { 20, analyze_arbitrage_max_data_age_ms,
      analyze_arbitrage_max_data_age_ms + 1 }

\* the markets two venues can have in exchange_data: one in common, none in
\* common, both in common, one of the first venue's two in common
MarketSets ==
    { <<{"BTC"}, {"BTC"}>>, <<{"BTC"}, {"ETH"}>>, <<Markets, Markets>>,
      <<Markets, {"ETH"}>> }

\* a venue's entry: quote q for every market of ms, `age` old
VenueEntry(exchange_id, ms, q, age) ==
    Entry(exchange_id,
          [m \in ms |-> [bid |-> q.bid, ask |-> q.ask,
                         timestamp |-> AnalyzeNow - age]])

\* the exchange_data of the calls: none, one venue, two venues with any
\* markets and ages and with quotes with and without a bid-ask width, three
\* venues with both markets
AnalyzeInputs ==
    { << >>, << VenueEntry("binance", {"BTC"}, QuoteLo, 20) >> }
    \cup { << VenueEntry("binance", ms[1], q[1], age[1]),
              VenueEntry("bybit", ms[2], q[2], age[2]) >> :
             ms \in MarketSets,
             age \in AnalyzeAges \X AnalyzeAges,
             q \in { <<QuoteLo, QuoteHi>>, <<QuoteFlatLo, QuoteFlatHi>> } }
    \cup { << VenueEntry("binance", Markets, QuoteLo, age[1]),
              VenueEntry("bybit", Markets, QuoteHi, age[2]),
              VenueEntry("okx", Markets, QuoteMid, age[3]) >> :
             age \in {20, analyze_arbitrage_max_data_age_ms + 1}
                       \X {20, analyze_arbitrage_max_data_age_ms + 1}
                       \X {20, analyze_arbitrage_max_data_age_ms + 1} }

\* a call of analyze_arbitrage
Analyze ==
    /\ \E exchange_data \in AnalyzeInputs :
         LET new_spreads == AnalyzeArbitrage(commission_cache, exchange_data,
                                             AnalyzeNow)
         IN  /\ pred_in' = [ op |-> "analyze_arbitrage",
                             exchange_data |-> exchange_data,
                             current_timestamp |-> AnalyzeNow ]
             /\ pred_out' = new_spreads
             /\ commission_cache' = CacheAfter(commission_cache, new_spreads)
    /\ UNCHANGED << now, feed_queue, pc, spreads, positions_to_close, closing,
                    closed_positions_markets, positions_to_open, open_idx,
                    opening, open_calls, positions, exchange_balances,
                    funding_rates, consider_funding, submitted, close_calls >>

NextAnalyze == Analyze

SpecAnalyze == Init /\ [][NextAnalyze]_vars

-----------------------------------------------------------------------------
(* DataFeed.watch_orderbook: SpecWatch runs the subscription tasks of two  *)
(* venues and one market next to the aggregator.  pred_in holds what the   *)
(* tasks were started with and how many snapshots they have put, pred_out  *)
(* the position of every task and collect_queue.  A sleep is counted in    *)
(* seconds from its start.                                                 *)

MaxSnapshots == 3

data_feed_retry_seconds == 30

\* the variables the data feed does not touch
StrategyVars ==
    << now, feed_queue, pc, spreads, positions_to_close, closing,
       closed_positions_markets, positions_to_open, open_idx, opening,
       open_calls, positions, exchange_balances, funding_rates,
       consider_funding, commission_cache, submitted, close_calls >>

\* product(self.exchanges, self.markets) of get_tasks
WatchTasks == {"binance", "bybit"} \X {"BTC"}

\* config.ws_latency_threshold: BotConfig has no such field, and reading it
\* raises AttributeError unless the configuration object was given one
NoThreshold == 0 - 1
LatencyThresholds == {NoThreshold, 5}

\* what one `await exchange.watch_order_book(...)` ends with: an order book
\* with an empty side, one with both sides, or an exception
WatchOutcomes == {"empty", "delivery", "NetworkError", "Exception"}

\* loop.time() - ws_last_received[key] at a delivery with both sides, in
\* seconds: the time since the delivery before, at the threshold and over it
WatchDelays == {5, 6}

\* line 159, if a delay equal to the threshold restarted the transport too
Late_Inclusive(delay, threshold) == delay >= threshold

\* line 159: `delay > self.config.ws_latency_threshold`
Late(delay, threshold) == delay > threshold

\* the handlers of lines 180-189: the exceptions after which the loop
\* sleeps and goes on, if only NetworkError had a handler
Retried_NetworkOnly(exc) == exc = "NetworkError"

\* the handlers of lines 180-189: AttributeError is caught as an Exception
Retried(exc) == exc \in {"NetworkError", "Exception", "AttributeError"}

\* asyncio.Queue() of DataFeed.__init__ (line 48) and of main.py (41-42):
\* maxsize is 0, and asyncio takes a maxsize of 0 or less as no limit
QueueMaxsize == 0

\* Queue.full(): put() waits while it holds
QueueFull(queue, maxsize) == maxsize > 0 /\ Len(queue) >= maxsize

WatchTask(at, slept, last) == [at |-> at, slept |-> slept, last |-> last]

\* an exception other than CancelledError is raised inside the try of task
\* k: the loop sleeps data_feed_retry_seconds, or the exception ends the task
Raise(tasks, k, exc) ==
    [tasks EXCEPT ![k] = IF Retried(exc) THEN WatchTask("sleep", 0, exc)
                         ELSE WatchTask("ended", 0, exc)]

\* get_tasks has created the tasks and each has run up to its first await
\* (lines 52-59, 131-145); collect_queue is empty
InitWatch ==
    /\ now = 0
    /\ feed_queue = << >>
    /\ pc = "get"
    /\ spreads = << >>
    /\ positions_to_close = << >>
    /\ closing = {}
    /\ closed_positions_markets = {}
    /\ positions_to_open = << >>
    /\ open_idx = 0
    /\ opening = NoPosition
    /\ open_calls = << >>
    /\ positions = EmptyDict
    /\ exchange_balances = EmptyDict
    /\ funding_rates = EmptyDict
    /\ consider_funding = FALSE
    /\ commission_cache = EmptyDict
    /\ submitted = << >>
    /\ close_calls = << >>
    /\ pred_in \in { [ op |-> "watch_orderbook",
                       ws_latency_threshold |-> threshold, delivered |-> 0 ] :
                     threshold \in LatencyThresholds }
    /\ pred_out = [ tasks |-> [k \in WatchTasks |->
                                 WatchTask("watch", 0, "none")],
                    delay |-> [k \in WatchTasks |-> 0],
                    collect_queue |-> << >> ]

\* watch_order_book of task k returns or raises, and the task runs to its
\* next await (lines 145-189)
WatchReceiveOf(k) ==
    /\ pred_in # NoPred
    /\ pred_in.op = "watch_orderbook"
    /\ pred_out.tasks[k].at = "watch"
    /\ \E outcome \in WatchOutcomes, delay \in WatchDelays :
         LET tasks == pred_out.tasks
             threshold == pred_in.ws_latency_threshold
         IN  CASE outcome = "empty" ->
                    /\ pred_out' = [pred_out EXCEPT !.tasks[k].last = "empty"]
                    /\ pred_in' = pred_in
               [] outcome = "delivery" /\ threshold = NoThreshold ->
                    \* line 159 raises AttributeError
                    /\ pred_out' = [pred_out EXCEPT
                                      !.tasks = Raise(tasks, k,
                                                      "AttributeError"),
                                      !.delay[k] = delay]
                    /\ pred_in' = pred_in
               [] outcome = "delivery" /\ threshold # NoThreshold
                    /\ Late(delay, threshold) ->
                    /\ pred_out' = [pred_out EXCEPT
                                      !.tasks[k] = WatchTask("close", 0, "late"),
                                      !.delay[k] = delay]
                    /\ pred_in' = pred_in
               [] outcome = "delivery" /\ threshold # NoThreshold
                    /\ ~ Late(delay, threshold) ->
                    /\ pred_in.delivered < MaxSnapshots
                    /\ ~ QueueFull(pred_out.collect_queue, QueueMaxsize)
                    /\ pred_out' = [pred_out EXCEPT
                                      !.tasks[k].last = "snapshot",
                                      !.delay[k] = delay,
                                      !.collect_queue = Append(@, k)]
                    /\ pred_in' = [pred_in EXCEPT !.delivered = @ + 1]
               [] OTHER ->
                    /\ pred_out' = [pred_out EXCEPT
                                      !.tasks = Raise(tasks, k, outcome)]
                    /\ pred_in' = pred_in
    /\ UNCHANGED StrategyVars

WatchReceive == \E k \in WatchTasks : WatchReceiveOf(k)

\* `await exchange.close()` of line 163 returns or raises
WatchClosed ==
    /\ pred_in # NoPred
    /\ pred_in.op = "watch_orderbook"
    /\ \E k \in WatchTasks :
         /\ pred_out.tasks[k].at = "close"
         /\ \/ pred_out' = [pred_out EXCEPT
                              !.tasks[k] = WatchTask("watch", 0, "late")]
            \/ \E exc \in {"NetworkError", "Exception"} :
                 pred_out' = [pred_out EXCEPT
                                !.tasks = Raise(pred_out.tasks, k, exc)]
    /\ UNCHANGED pred_in
    /\ UNCHANGED StrategyVars

\* the sleep of lines 184 and 189 goes on, or it is over and the loop
\* calls watch_order_book again
WatchTimerOf(k) ==
    /\ pred_in # NoPred
    /\ pred_in.op = "watch_orderbook"
    /\ pred_out.tasks[k].at = "sleep"
    /\ IF pred_out.tasks[k].slept < data_feed_retry_seconds
       THEN pred_out' = [pred_out EXCEPT
                           !.tasks[k].slept = @ + data_feed_retry_seconds \div 2]
       ELSE pred_out' = [pred_out EXCEPT !.tasks[k].at = "watch",
                                         !.tasks[k].slept = 0]
    /\ UNCHANGED pred_in
    /\ UNCHANGED StrategyVars

WatchTimer == \E k \in WatchTasks : WatchTimerOf(k)

\* collect_feed takes a snapshot off collect_queue (line 87)
CollectGet ==
    /\ pred_in # NoPred
    /\ pred_in.op = "watch_orderbook"
    /\ pred_out.collect_queue # << >>
    /\ pred_out' = [pred_out EXCEPT !.collect_queue = Tail(@)]
    /\ UNCHANGED pred_in
    /\ UNCHANGED StrategyVars

\* the TaskGroup of work() cancels its tasks: CancelledError is raised at
\* the await each task is suspended in; lines 175-179 catch it in the try,
\* and out of a sleep of a handler it ends the task as well
WatchCancel ==
    /\ pred_in # NoPred
    /\ pred_in.op = "watch_orderbook"
    /\ \E k \in WatchTasks : pred_out.tasks[k].at # "ended"
    /\ pred_out' = [pred_out EXCEPT
                      !.tasks = [k \in WatchTasks |->
                                   IF pred_out.tasks[k].at = "ended"
                                   THEN pred_out.tasks[k]
                                   ELSE WatchTask("ended", 0,
                                                  "CancelledError")]]
    /\ UNCHANGED pred_in
    /\ UNCHANGED StrategyVars

NextWatch ==
    \/ WatchReceive
    \/ WatchClosed
    \/ WatchTimer
    \/ CollectGet
    \/ WatchCancel

\* the event loop runs every timer that is due
SpecWatch ==
    /\ InitWatch
    /\ [][NextWatch]_vars
    /\ \A k \in WatchTasks : WF_vars(WatchTimerOf(k))

-----------------------------------------------------------------------------
(* The refreshers: SpecRefresh runs fetch_balance_data and                  *)
(* fetch_funding_rates.  pred_in holds the configuration, pred_out the      *)
(* position of each task; a sleep is counted in seconds from its start.    *)

balance_fetch_interval_seconds == 60

Refreshers == {"fetch_balance_data", "fetch_funding_rates"}

\* config.funding_rate_fetch_interval_seconds: BotConfig has no such field,
\* and reading it raises AttributeError unless the configuration object was
\* given one
NoInterval == 0 - 1
FundingIntervals == {NoInterval, 60}

\* the argument of the asyncio.sleep of refresher r (lines 379, 427-429)
RefreshInterval(r) ==
    IF r = "fetch_balance_data" THEN balance_fetch_interval_seconds
    ELSE pred_in.funding_rate_fetch_interval_seconds

\* self.funding_rates after a round: an entry for every venue, empty for a
\* venue whose fetch raised (lines 386-406, 416-422)
FundingMaps ==
    [ {"binance", "bybit"} -> { EmptyDict, [m \in {"BTC"} |-> PredRate] } ]

\* what the fetch_balance() calls of one round end with, one per venue: the
\* free balance of the base currency, or an exception
FetchRaised == 0 - 1
FetchResults == [Venues -> {FetchRaised, 0, 12 * UsdScale}]

\* a round that keeps what the venues that answered have reported
BalancesAfterRound_Partial(balances, results) ==
    [v \in Venues |-> IF results[v] # FetchRaised THEN results[v]
                      ELSE BalanceGet(balances, v)]

\* lines 362-375: gather raises the first exception of its awaitables and the
\* assignment is not reached; otherwise the map is built from all results
BalancesAfterRound(balances, results) ==
    IF \E v \in Venues : results[v] = FetchRaised THEN balances ELSE results

\* the tasks have run up to the gather of their first round
InitRefresh ==
    /\ now = 0
    /\ feed_queue = << >>
    /\ pc = "get"
    /\ spreads = << >>
    /\ positions_to_close = << >>
    /\ closing = {}
    /\ closed_positions_markets = {}
    /\ positions_to_open = << >>
    /\ open_idx = 0
    /\ opening = NoPosition
    /\ open_calls = << >>
    /\ positions = EmptyDict
    /\ exchange_balances = EmptyDict
    /\ funding_rates = EmptyDict
    /\ consider_funding = FALSE
    /\ commission_cache = EmptyDict
    /\ submitted = << >>
    /\ close_calls = << >>
    /\ pred_in \in { [ op |-> "refresh",
                       funding_rate_fetch_interval_seconds |-> interval,
                       fetched |-> [v \in Venues |-> FetchRaised] ] :
                     interval \in FundingIntervals }
    /\ pred_out = [r \in Refreshers |-> WatchTask("fetch", 0, "none")]

RefreshFrame ==
    UNCHANGED << now, feed_queue, pc, spreads, positions_to_close, closing,
                 closed_positions_markets, positions_to_open, open_idx,
                 opening, open_calls, positions, consider_funding,
                 commission_cache, submitted, close_calls >>

\* the gather of a round of fetch_balance_data returns or raises, and the
\* task runs to its next await (lines 361-383); pred_in.fetched keeps what
\* the fetch_balance calls of the round ended with
BalanceRound ==
    /\ pred_out["fetch_balance_data"].at = "fetch"
    /\ \E results \in FetchResults :
         /\ exchange_balances' = BalancesAfterRound(exchange_balances, results)
         /\ pred_in' = [pred_in EXCEPT !.fetched = results]
         /\ pred_out' = [pred_out EXCEPT !["fetch_balance_data"] =
                           IF \E v \in Venues : results[v] = FetchRaised
                           THEN \* line 383 logs it and the loop goes on
                                WatchTask("fetch", 0, "Exception")
                           ELSE WatchTask("sleep", 0, "ok")]
    /\ UNCHANGED funding_rates
    /\ RefreshFrame

\* the gather of a round of fetch_funding_rates returns, and the task runs
\* to its next await (lines 411-433); reading the interval raises when the
\* configuration has none
FundingRound ==
    /\ pred_out["fetch_funding_rates"].at = "fetch"
    /\ \E rates \in FundingMaps : funding_rates' = rates
    /\ pred_out' = [pred_out EXCEPT !["fetch_funding_rates"] =
                      IF RefreshInterval("fetch_funding_rates") = NoInterval
                      THEN WatchTask("fetch", 0, "Exception")
                      ELSE WatchTask("sleep", 0, "ok")]
    /\ UNCHANGED << exchange_balances, pred_in >>
    /\ RefreshFrame

\* the sleep of a refresher goes on, or it is over and the next round starts
RefreshTimer ==
    /\ \E r \in Refreshers :
         /\ pred_out[r].at = "sleep"
         /\ IF pred_out[r].slept < RefreshInterval(r)
            THEN pred_out' = [pred_out EXCEPT
                                ![r].slept = @ + RefreshInterval(r) \div 2]
            ELSE pred_out' = [pred_out EXCEPT
                                ![r] = WatchTask("fetch", 0, pred_out[r].last)]
    /\ UNCHANGED << exchange_balances, funding_rates, pred_in >>
    /\ RefreshFrame

\* the TaskGroup cancels the tasks: both loops catch CancelledError and
\* break (lines 380-381, 430-431)
RefreshCancel ==
    /\ \E r \in Refreshers : pred_out[r].at # "ended"
    /\ pred_out' = [r \in Refreshers |-> WatchTask("ended", 0, "CancelledError")]
    /\ UNCHANGED << exchange_balances, funding_rates, pred_in >>
    /\ RefreshFrame

NextRefresh == BalanceRound \/ FundingRound \/ RefreshTimer \/ RefreshCancel

SpecRefresh == InitRefresh /\ [][NextRefresh]_vars

-----------------------------------------------------------------------------
(* The supervisor: SpecRun runs ArbitrageBot.run() from `await self.work()` *)
(* on.  The bot's TaskGroup holds data_feed.work() and strategy.work(),     *)
(* each of which holds its own tasks in a TaskGroup of its own.  pred_out   *)
(* holds the state of every task and module, where run() is, and what the   *)
(* close() of each venue did.                                               *)

Modules == {"DataFeed", "Strategy"}

\* get_tasks of the two modules (data_feed.py 52-59, strategy.py 54-60)
ModuleTasks(module) ==
    IF module = "DataFeed" THEN {"collect_feed", "watch_orderbook"}
    ELSE {"process_feed", "periodic_status_report", "fetch_balance_data",
          "fetch_funding_rates"}

RunTasks == ModuleTasks("DataFeed") \cup ModuleTasks("Strategy")

\* self.exchange_by_id of main.py (lines 251-258)
RunVenues == {"binance", "bybit"}

\* close_exchanges whose gather lets an exception of a close() through
CloseExchangesEnds_Raise(results) ==
    IF \E v \in RunVenues : results[v] = "exc" THEN "raised" ELSE "returned"

\* close_exchanges gathers with return_exceptions=True (main.py 164-170)
CloseExchangesEnds(results) == "returned"

\* what the work() of a module does with the exception its TaskGroup raises
\* (base.py 31-34): CancelledError and Exception, which ExceptionGroup is,
\* are logged, and work() returns
WorkReraises == FALSE

\* run() is suspended in `await self.work()` with every task running
InitRun ==
    /\ now = 0
    /\ feed_queue = << >>
    /\ pc = "get"
    /\ spreads = << >>
    /\ positions_to_close = << >>
    /\ closing = {}
    /\ closed_positions_markets = {}
    /\ positions_to_open = << >>
    /\ open_idx = 0
    /\ opening = NoPosition
    /\ open_calls = << >>
    /\ positions = EmptyDict
    /\ exchange_balances = EmptyDict
    /\ funding_rates = EmptyDict
    /\ consider_funding = FALSE
    /\ commission_cache = EmptyDict
    /\ submitted = << >>
    /\ close_calls = << >>
    /\ pred_in = [ op |-> "run" ]
    /\ pred_out = [ tasks |-> [t \in RunTasks |-> "running"],
                    modules |-> [m \in Modules |-> "running"],
                    run |-> "work",
                    cancelled |-> FALSE,
                    closes |-> [v \in RunVenues |-> "none"],
                    ended |-> "no" ]

RunFrame ==
    UNCHANGED << now, feed_queue, pc, spreads, positions_to_close, closing,
                 closed_positions_markets, positions_to_open, open_idx,
                 opening, open_calls, positions, exchange_balances,
                 funding_rates, consider_funding, commission_cache, submitted,
                 close_calls, pred_in >>

\* the tasks `cancel` is called on when the TaskGroup of a module aborts
Aborted(tasks, module) ==
    [t \in RunTasks |->
       IF t \in ModuleTasks(module) /\ tasks[t] = "running" THEN "cancelling"
       ELSE tasks[t]]

\* an exception leaves a task uncaught (out of an except or finally block):
\* the TaskGroup of its module cancels the module's other tasks
TaskFatal ==
    /\ pred_out.run = "work"
    /\ \E m \in Modules, t \in RunTasks :
         /\ t \in ModuleTasks(m)
         /\ pred_out.tasks[t] = "running"
         /\ pred_out' = [pred_out EXCEPT
                           !.tasks = [Aborted(pred_out.tasks, m) EXCEPT
                                        ![t] = "raised"]]
    /\ RunFrame

\* CancelledError is raised at the await a cancelled task is suspended in,
\* and the task ends
TaskCancelled ==
    /\ \E t \in RunTasks :
         /\ pred_out.tasks[t] = "cancelling"
         /\ pred_out' = [pred_out EXCEPT !.tasks[t] = "ended"]
    /\ RunFrame

\* the TaskGroup of a module has no task left: work() logs what the group
\* raised and returns (base.py 27-35)
ModuleReturns ==
    /\ \E m \in Modules :
         /\ pred_out.modules[m] = "running"
         /\ \A t \in ModuleTasks(m) : pred_out.tasks[t] \in {"ended", "raised"}
         /\ IF /\ WorkReraises
               /\ \E t \in ModuleTasks(m) : pred_out.tasks[t] = "raised"
            THEN \* the bot's TaskGroup aborts and cancels the other modules
                 pred_out' = [pred_out EXCEPT
                    !.modules[m] = "raised",
                    !.tasks = [t \in RunTasks |->
                                 IF pred_out.tasks[t] = "running"
                                 THEN "cancelling" ELSE pred_out.tasks[t]]]
            ELSE pred_out' = [pred_out EXCEPT !.modules[m] = "returned"]
    /\ RunFrame

\* run() is cancelled while it awaits work(): the bot's TaskGroup cancels
\* the work() of the modules, and their TaskGroups cancel their tasks
RunCancel ==
    /\ pred_out.run = "work"
    /\ ~ pred_out.cancelled
    /\ pred_out' = [pred_out EXCEPT
                      !.cancelled = TRUE,
                      !.tasks = [t \in RunTasks |->
                                   IF pred_out.tasks[t] = "running"
                                   THEN "cancelling" ELSE pred_out.tasks[t]]]
    /\ RunFrame

\* the bot's TaskGroup has no module left: work() returns (CancelledError
\* is caught at base.py 31, and at main.py 183), and the finally of run()
\* calls close_exchanges, which calls close() of every venue
WorkReturns ==
    /\ pred_out.run = "work"
    /\ \A m \in Modules : pred_out.modules[m] # "running"
    /\ pred_out' = [pred_out EXCEPT
                      !.run = "close_exchanges",
                      !.closes = [v \in RunVenues |-> "called"]]
    /\ RunFrame

\* every close() has returned or raised, and close_exchanges and run() end
CloseExchanges ==
    /\ pred_out.run = "close_exchanges"
    /\ \E results \in [RunVenues -> {"ok", "exc"}] :
         pred_out' = [pred_out EXCEPT !.run = "done",
                                      !.closes = results,
                                      !.ended = CloseExchangesEnds(results)]
    /\ RunFrame

NextRun ==
    \/ TaskFatal
    \/ TaskCancelled
    \/ ModuleReturns
    \/ RunCancel
    \/ WorkReturns
    \/ CloseExchanges

\* the event loop resumes every task that is ready to run
SpecRun ==
    /\ InitRun
    /\ [][NextRun]_vars
    /\ WF_vars(TaskCancelled)
    /\ WF_vars(ModuleReturns)
    /\ WF_vars(WorkReturns)
    /\ WF_vars(CloseExchanges)

-----------------------------------------------------------------------------
(* The primary legs of open(): SpecOrder runs process_positions up to the  *)
(* requests of the first open() for one spread, under either value of      *)
(* config.order_type.  pred_in holds the configuration and the quotes,      *)
(* pred_out the position and the requests its open() gathers.               *)

\* the values of BotConfig.order_type
OrderTypes == {"market", "limit"}

\* exchange.create_order_ws(market, 'limit', side, amount, price,
\* params={'postOnly': post_only})
LimitOrder(exchange_id, market, side, amount, price, post_only) ==
    [ exchange |-> exchange_id, market |-> market, type |-> "limit",
      side |-> side, amount |-> amount, price |-> price,
      postOnly |-> post_only, reduceOnly |-> FALSE ]

\* primary_order_tasks of open(), by the position's own order_type
OpenOrders(position, amount) ==
    IF position.order_type = "limit"
    THEN << LimitOrder(position.buy_exchange, position.market, "buy", amount,
                       position.buy_price, TRUE),
            LimitOrder(position.sell_exchange, position.market, "sell", amount,
                       position.sell_price, TRUE) >>
    ELSE PrimaryOrders(position, amount)

\* the asks of the buy venue and the bids of the sell venue
OrderBuyPrices == {9995, 10000, 10005}
OrderSellPrices == {10070, 10075, 10080}

\* the distance between a venue's bid and its ask
OrderWidth == 5

\* two venues' quotes of one market, 20 ms old
OrderData(market, buy, sell, buy_price, sell_price) ==
    << VenueEntry(buy, {market}, [bid |-> buy_price - OrderWidth, ask |-> buy_price],
                  20),
       VenueEntry(sell, {market},
                  [bid |-> sell_price, ask |-> sell_price + OrderWidth],
                  20) >>

\* process_positions builds the position of the first spread to open and
\* awaits its open(), which gathers the two requests
PlaceLegs ==
    /\ \E order_type \in OrderTypes, market \in Markets,
          buy \in Venues, sell \in Venues,
          buy_price \in OrderBuyPrices, sell_price \in OrderSellPrices :
         LET exchange_data == OrderData(market, buy, sell, buy_price,
                                        sell_price)
             sp == AnalyzeArbitrage(commission_cache, exchange_data,
                                    AnalyzeNow)
             cands == PositionsToOpen(sp, {}, AnalyzeNow, consider_funding,
                                      funding_rates)
         IN  /\ buy # sell
             /\ cands # << >>
             /\ pred_in' = [ op |-> "ArbitragePosition.open",
                             order_type |-> order_type,
                             exchange_data |-> exchange_data ]
             /\ pred_out' =
                  [ position |-> cands[1],
                    gathered |->
                      IF GetOrderAmount(cands[1]) = InvalidOrder THEN << >>
                      ELSE OpenOrders(cands[1], GetOrderAmount(cands[1])) ]
    /\ UNCHANGED << now, feed_queue, pc, spreads, positions_to_close, closing,
                    closed_positions_markets, positions_to_open, open_idx,
                    opening, open_calls, positions, exchange_balances,
                    funding_rates, consider_funding, commission_cache,
                    submitted, close_calls >>

NextOrder == PlaceLegs

SpecOrder == Init /\ [][NextOrder]_vars

-----------------------------------------------------------------------------
(* DataFeed.collect_feed: SpecFeed gives it order-book snapshots.  Here a   *)
(* price is counted in cents and a volume in 10^-6 of a contract, so a     *)
(* notional price * volume is counted in 10^-6 of a cent.  pred_out holds  *)
(* the local `feed` of collect_feed.                                       *)

CentsPerUsd == 10 * 10

\* target_amount of collect_feed (lines 64-66)
target_amount == usd_amount * leverage * ((AmountScale * CentsPerUsd) \div UsdScale)

\* get_price raised ValueError('Not enough orderbook depth!')
NotEnoughDepth == 0 - 3

\* get_price that takes the whole of the level that reaches the target
RECURSIVE GetPriceFrom_WholeLevels(_, _, _, _)
GetPriceFrom_WholeLevels(asks_or_bids, i, amounts_sum, volumes_sum) ==
    IF i > Len(asks_or_bids) THEN NotEnoughDepth
    ELSE LET price == asks_or_bids[i][1]
             volume == asks_or_bids[i][2]
             amount == price * volume
         IN  IF amount + amounts_sum >= target_amount
             THEN (amounts_sum + amount) \div (volumes_sum + volume)
             ELSE GetPriceFrom_WholeLevels(asks_or_bids, i + 1,
                                           amounts_sum + amount,
                                           volumes_sum + volume)

\* the loop of get_price from level i on (lines 71-84)
RECURSIVE GetPriceFrom(_, _, _, _)
GetPriceFrom(asks_or_bids, i, amounts_sum, volumes_sum) ==
    IF i > Len(asks_or_bids) THEN NotEnoughDepth
    ELSE LET price == asks_or_bids[i][1]
             volume == asks_or_bids[i][2]
             amount == price * volume
             _amount == target_amount - amounts_sum
             _volume == _amount \div price
         IN  IF amount + amounts_sum >= target_amount
             THEN (amounts_sum + _amount) \div (volumes_sum + _volume)
             ELSE GetPriceFrom(asks_or_bids, i + 1, amounts_sum + amount,
                               volumes_sum + volume)

GetPrice(asks_or_bids) == GetPriceFrom(asks_or_bids, 1, 0, 0)

\* book sides as [price, volume] levels, best price first.  Asks: one deep
\* level; a level of exactly the target; two levels, the second reaching
\* the target; three levels, the third reaching it; two levels short of the
\* target; none.  Bids likewise
AskSides ==
    { << <<10000, 100000>> >>,
      << <<10000, 55000>> >>,
      << <<10000, 27500>>, <<11000, 100000>> >>,
      << <<10000, 11000>>, <<10010, 20000>>, <<11000, 80000>> >>,
      << <<10000, 27500>>, <<11000, 10000>> >>,
      << >> }

BidSides ==
    { << <<9990, 100000>> >>,
      << <<9990, 20000>>, <<8800, 100000>> >>,
      << <<9990, 20000>>, <<8800, 10000>> >>,
      << >> }

\* the snapshots watch_orderbook puts on collect_queue (lines 166-174):
\* binance with every pair of sides, binance again later with deep sides,
\* bybit with deep sides, with asks short of the target and with a lower
\* bid, binance with deep sides of a second market
Snapshots ==
    { [ exchange |-> "binance", market |-> "BTC", bids |-> bids,
        asks |-> asks, timestamp |-> 100 ] :
        bids \in BidSides, asks \in AskSides }
    \cup { [ exchange |-> "binance", market |-> "BTC",
             bids |-> << <<9990, 100000>> >>,
             asks |-> << <<10000, 100000>> >>, timestamp |-> 200 ],
           [ exchange |-> "bybit", market |-> "BTC",
             bids |-> << <<9990, 100000>> >>,
             asks |-> << <<10000, 100000>> >>, timestamp |-> 100 ],
           [ exchange |-> "bybit", market |-> "BTC",
             bids |-> << <<9990, 100000>> >>,
             asks |-> << <<10000, 27500>>, <<11000, 10000>> >>,
             timestamp |-> 200 ],
           [ exchange |-> "bybit", market |-> "BTC",
             bids |-> << <<9980, 100000>> >>,
             asks |-> << <<10000, 100000>> >>, timestamp |-> 200 ],
           [ exchange |-> "binance", market |-> "ETH",
             bids |-> << <<9990, 100000>> >>,
             asks |-> << <<10000, 100000>> >>, timestamp |-> 100 ] }

\* feed[exchange_id] of the defaultdict; feed is kept as a sequence of
\* entries in the order the venues were first stored
FeedIndex(feed, exchange_id) ==
    IF \E i \in 1..Len(feed) : feed[i].exchange = exchange_id
    THEN CHOOSE i \in 1..Len(feed) : feed[i].exchange = exchange_id
    ELSE 0

FeedMarkets(feed, exchange_id) ==
    IF FeedIndex(feed, exchange_id) = 0 THEN EmptyDict
    ELSE feed[FeedIndex(feed, exchange_id)].markets

\* feed[exchange_id][market] = quote
FeedStore(feed, exchange_id, market, quote) ==
    IF FeedIndex(feed, exchange_id) = 0
    THEN Append(feed, Entry(exchange_id, Put(EmptyDict, market, quote)))
    ELSE [feed EXCEPT ![FeedIndex(feed, exchange_id)].markets =
                         Put(@, market, quote)]

\* changed_feed that leaves out the test `market in changed_markets`
ChangedFeed_AllMarkets(feed, changed_markets) ==
    [ i \in 1..Len(feed) |->
        Entry(feed[i].exchange,
              [m \in DOMAIN feed[i].markets |-> feed[i].markets[m]]) ]

\* changed_feed of lines 111-122
ChangedFeed(feed, changed_markets) ==
    [ i \in 1..Len(feed) |->
        Entry(feed[i].exchange,
              [m \in DOMAIN feed[i].markets \cap changed_markets |->
                 feed[i].markets[m]]) ]

\* the test of lines 94-102 that compares the ask alone with the stored one
QuoteChanged_AskOnly(feed, orderbook) ==
    /\ orderbook.bids # << >>
    /\ orderbook.asks # << >>
    /\ GetPrice(orderbook.bids) # NotEnoughDepth
    /\ GetPrice(orderbook.asks) # NotEnoughDepth
    /\ LET stored == FeedMarkets(feed, orderbook.exchange)
       IN  \/ orderbook.market \notin DOMAIN stored
           \/ stored[orderbook.market].ask # GetPrice(orderbook.asks)

\* the test of lines 94-102 if a later timestamp made a quote new as well
QuoteChanged_OrNewer(feed, orderbook) ==
    /\ orderbook.bids # << >>
    /\ orderbook.asks # << >>
    /\ GetPrice(orderbook.bids) # NotEnoughDepth
    /\ GetPrice(orderbook.asks) # NotEnoughDepth
    /\ LET stored == FeedMarkets(feed, orderbook.exchange)
       IN  \/ orderbook.market \notin DOMAIN stored
           \/ stored[orderbook.market].bid # GetPrice(orderbook.bids)
           \/ stored[orderbook.market].ask # GetPrice(orderbook.asks)
           \/ stored[orderbook.market].timestamp # orderbook.timestamp

\* the test of lines 94-102 if only the bid side had to have the depth
QuoteChanged_BidDepthOnly(feed, orderbook) ==
    /\ orderbook.bids # << >>
    /\ orderbook.asks # << >>
    /\ GetPrice(orderbook.bids) # NotEnoughDepth
    /\ LET stored == FeedMarkets(feed, orderbook.exchange)
       IN  \/ orderbook.market \notin DOMAIN stored
           \/ stored[orderbook.market].bid # GetPrice(orderbook.bids)
           \/ stored[orderbook.market].ask # GetPrice(orderbook.asks)

\* the snapshot gives a quote that is stored: both sides have levels, both
\* prices are found, and the venue has no quote of the market yet or one
\* with another bid or ask (lines 94-102)
QuoteChanged(feed, orderbook) ==
    /\ orderbook.bids # << >>
    /\ orderbook.asks # << >>
    /\ GetPrice(orderbook.bids) # NotEnoughDepth
    /\ GetPrice(orderbook.asks) # NotEnoughDepth
    /\ LET stored == FeedMarkets(feed, orderbook.exchange)
       IN  \/ orderbook.market \notin DOMAIN stored
           \/ stored[orderbook.market].bid # GetPrice(orderbook.bids)
           \/ stored[orderbook.market].ask # GetPrice(orderbook.asks)

\* `except Exception` of line 126 catches the ValueError of get_price
CollectFeedCatches == TRUE

\* the state of collect_feed before its first snapshot
FeedStart ==
    [ feed |-> << >>, put |-> << >>, logged |-> FALSE, running |-> TRUE ]

\* collect_feed takes one snapshot and handles it (lines 87-129); an
\* exception of get_price is logged at line 127 and the loop goes on
CollectFeed ==
    /\ Len(feed_queue) < MaxQueue
    /\ (IF pred_in = NoPred THEN FeedStart ELSE pred_out).running
    /\ \E orderbook \in Snapshots :
         LET before == IF pred_in = NoPred THEN FeedStart ELSE pred_out
             raised == /\ orderbook.bids # << >>
                       /\ orderbook.asks # << >>
                       /\ \/ GetPrice(orderbook.bids) = NotEnoughDepth
                          \/ GetPrice(orderbook.asks) = NotEnoughDepth
             quote == [ bid |-> GetPrice(orderbook.bids),
                        ask |-> GetPrice(orderbook.asks),
                        timestamp |-> orderbook.timestamp ]
             feed == FeedStore(before.feed, orderbook.exchange,
                               orderbook.market, quote)
         IN  /\ pred_in' = [ op |-> "collect_feed", orderbook |-> orderbook ]
             /\ IF QuoteChanged(before.feed, orderbook)
                THEN /\ pred_out' = [ feed |-> feed,
                                      put |-> << ChangedFeed(feed,
                                                   {orderbook.market}) >>,
                                      logged |-> FALSE,
                                      running |-> TRUE ]
                     /\ feed_queue' = Append(feed_queue,
                                             ChangedFeed(feed,
                                                         {orderbook.market}))
                ELSE /\ pred_out' = [ feed |-> before.feed, put |-> << >>,
                                      logged |-> raised,
                                      running |-> raised => CollectFeedCatches ]
                     /\ feed_queue' = feed_queue
    /\ UNCHANGED << now, pc, spreads, positions_to_close, closing,
                    closed_positions_markets, positions_to_open, open_idx,
                    opening, open_calls, positions, exchange_balances,
                    funding_rates, consider_funding, commission_cache,
                    submitted, close_calls >>

\* process_feed takes a delta off feed_queue
FeedTaken ==
    /\ feed_queue # << >>
    /\ feed_queue' = Tail(feed_queue)
    /\ UNCHANGED << now, pc, spreads, positions_to_close, closing,
                    closed_positions_markets, positions_to_open, open_idx,
                    opening, open_calls, positions, exchange_balances,
                    funding_rates, consider_funding, commission_cache,
                    submitted, close_calls, pred_in, pred_out >>

NextFeed == CollectFeed \/ FeedTaken

SpecFeed == Init /\ [][NextFeed]_vars

-----------------------------------------------------------------------------
(* ArbitragePosition.close on its own: SpecClose calls close() again and   *)
(* again on one position, against venues that keep the net contracts of    *)
(* the instrument: > 0 long, < 0 short.                                    *)

MaxCloses == 2

\* the venue's net contracts after it was sent the order: a reduce-only
\* order takes off at most what there is on the side it closes, a plain
\* market order is filled whole, a cancellation moves no contracts
VenueNet(net, order) ==
    IF order.type # "market" THEN net
    ELSE IF order.reduceOnly
         THEN IF order.side = "sell"
              THEN (IF net > 0 THEN net - Min(order.amount, net) ELSE net)
              ELSE (IF net < 0 THEN net + Min(order.amount, 0 - net) ELSE net)
         ELSE IF order.side = "buy" THEN net + order.amount
              ELSE net - order.amount

\* the venue answers the order with an error: a reduce-only order that finds
\* nothing to reduce
VenueRejects(net, order) ==
    /\ order.type = "market"
    /\ order.reduceOnly
    /\ IF order.side = "sell" THEN net <= 0 ELSE net >= 0

\* the requests of one gather reach the venues one after the other
RECURSIVE VenuesAfter(_, _)
VenuesAfter(contracts, orders) ==
    IF orders = << >> THEN contracts
    ELSE LET order == Head(orders)
         IN  VenuesAfter([contracts EXCEPT ![order.exchange] =
                                             VenueNet(@, order)],
                         Tail(orders))

\* what the gather of close() returns for them (return_exceptions=True)
RECURSIVE GatherResults(_, _)
GatherResults(contracts, orders) ==
    IF orders = << >> THEN << >>
    ELSE LET order == Head(orders)
         IN  << IF VenueRejects(contracts[order.exchange], order)
                THEN "exc" ELSE "ok" >>
             \o GatherResults([contracts EXCEPT ![order.exchange] =
                                                  VenueNet(@, order)],
                              Tail(orders))

\* return_exceptions of the gather of close() (line 650)
GatherReturnExceptions == TRUE

\* close() on a system of a position and its two venues: lines 598-671 with
\* trailing_stop_mode off.  The loop of lines 653-662 only logs, and no
\* attribute open() has set is written
CloseEffect(sys) ==
    LET orders == CloseOrders(sys.position)
        results == GatherResults(sys.contracts, orders)
    IN  [ position |-> sys.position,
          contracts |-> VenuesAfter(sys.contracts, orders),
          results |-> results,
          raised |-> /\ ~ GatherReturnExceptions
                     /\ \E i \in 1..Len(results) : results[i] = "exc" ]

\* the positions open() can have left: both legs of `amount` placed, the
\* counts as fetch_positions reported them
ClosePositions ==
    { [ NewPosition([ market |-> "BTC", buy_exchange_id |-> v[1],
                      sell_exchange_id |-> v[2], buy_price |-> q[1].ask,
                      sell_price |-> q[2].bid ])
        EXCEPT !.bought_amount = 0, !.sold_amount = 0, !.opened_at = 0 ] :
        v \in { <<"binance", "bybit">>, <<"bybit", "okx">> },
        q \in { <<QuoteLo, QuoteHi>>, <<QuoteMid, QuoteHi>> } }

\* what is left on a venue of a leg of `amount` contracts when close() is
\* called: all of it, a part (a stop or a liquidation took the rest), none
Remaining(amount) == { amount, amount \div 2, 0 }

\* a position is set up for close()
CloseSetup ==
    /\ pred_in = NoPred
    /\ \E p \in ClosePositions :
         \E reported \in Reported(GetOrderAmount(p)),
            long \in Remaining(GetOrderAmount(p)),
            short \in Remaining(GetOrderAmount(p)) :
           LET position == [p EXCEPT !.bought_amount = reported[1],
                                     !.sold_amount = reported[2]]
               contracts == [v \in {p.buy_exchange, p.sell_exchange} |->
                               IF v = p.buy_exchange THEN long ELSE 0 - short]
           IN  /\ pred_in' = [ op |-> "ArbitragePosition.close", calls |-> 0,
                               position |-> position, contracts |-> contracts ]
               /\ pred_out' = [ position |-> position, contracts |-> contracts,
                                results |-> << >>, raised |-> FALSE ]
    /\ PredUnchanged

\* one more call of close() on the position
CloseCall ==
    /\ pred_in # NoPred
    /\ pred_in.op = "ArbitragePosition.close"
    /\ pred_in.calls < MaxCloses
    /\ pred_in' = [pred_in EXCEPT !.calls = @ + 1]
    /\ pred_out' = CloseEffect(pred_out)
    /\ PredUnchanged

NextClose == CloseSetup \/ CloseCall

SpecClose == Init /\ [][NextClose]_vars

-----------------------------------------------------------------------------
(* The close phase of process_positions on its own: SpecCycle runs cycles  *)
(* of process_positions in which the close predicate holds, on a map that  *)
(* starts with one position, against venues of which some do not answer.   *)
(* pred_in holds the position, the venues' contracts before the first      *)
(* cycle, the venues that are down and the number of cycles; pred_out      *)
(* holds self.positions, the contracts and what the last close() got.      *)

\* the venues that answer every request with an error (an outage, a
\* revoked key): none, one of the two, both
DownSets(position) ==
    SUBSET {position.buy_exchange, position.sell_exchange}

\* what the gather of close() returns when the venues in `down` serve
\* nothing
RECURSIVE ResultsWithDown(_, _, _)
ResultsWithDown(contracts, orders, down) ==
    IF orders = << >> THEN << >>
    ELSE LET order == Head(orders)
         IN  IF order.exchange \in down
             THEN << "exc" >> \o ResultsWithDown(contracts, Tail(orders), down)
             ELSE << IF VenueRejects(contracts[order.exchange], order)
                     THEN "exc" ELSE "ok" >>
                  \o ResultsWithDown([contracts EXCEPT ![order.exchange] =
                                                         VenueNet(@, order)],
                                     Tail(orders), down)

\* the orders that reach a venue
Reaching(orders, down) ==
    LET Up(order) == order.exchange \notin down
    IN  SelectSeq(orders, Up)

\* a close() that lets the first exception of its requests through
ClosePropagates_Errors(results) == \E i \in 1..Len(results) : results[i] = "exc"

\* close() raises: the gather of line 650 has return_exceptions=True and
\* the loop of lines 653-662 only logs, so no result makes it raise
ClosePropagates(results) ==
    /\ ~ GatherReturnExceptions
    /\ \E i \in 1..Len(results) : results[i] = "exc"

\* self.positions holds one position whose close predicate holds
InitCycle ==
    /\ now = 0
    /\ feed_queue = << >>
    /\ pc = "get"
    /\ spreads = << >>
    /\ positions_to_close = << >>
    /\ closing = {}
    /\ closed_positions_markets = {}
    /\ positions_to_open = << >>
    /\ open_idx = 0
    /\ opening = NoPosition
    /\ open_calls = << >>
    /\ positions = EmptyDict
    /\ exchange_balances = EmptyDict
    /\ funding_rates = EmptyDict
    /\ consider_funding = FALSE
    /\ commission_cache = EmptyDict
    /\ submitted = << >>
    /\ close_calls = << >>
    /\ \E p \in ClosePositions :
         \E reported \in Reported(GetOrderAmount(p)),
            long \in Remaining(GetOrderAmount(p)),
            short \in Remaining(GetOrderAmount(p)),
            down \in DownSets(p) :
           LET position == [p EXCEPT !.bought_amount = reported[1],
                                     !.sold_amount = reported[2]]
               contracts == [v \in {p.buy_exchange, p.sell_exchange} |->
                               IF v = p.buy_exchange THEN long ELSE 0 - short]
           IN  /\ pred_in = [ op |-> "close_cycle", cycles |-> 0,
                              position |-> position, contracts |-> contracts,
                              down |-> down ]
               /\ pred_out = [ positions |-> Put(EmptyDict, position.market,
                                                 position),
                               contracts |-> contracts, results |-> << >>,
                               raised |-> FALSE ]

\* lines 265-283 of a cycle: every position of the map is selected, its
\* close() is gathered with return_exceptions=True and its entry deleted
CloseCycle ==
    /\ pred_in.cycles < MaxCloses
    /\ LET to_close == DOMAIN pred_out.positions
           orders == IF to_close = {} THEN << >>
                     ELSE CloseOrders(pred_in.position)
           results == ResultsWithDown(pred_out.contracts, orders, pred_in.down)
       IN  /\ pred_out' =
                [ positions |-> RemoveClosed(pred_out.positions, to_close),
                  contracts |-> VenuesAfter(pred_out.contracts,
                                            Reaching(orders, pred_in.down)),
                  results |-> results,
                  raised |-> ClosePropagates(results) ]
           /\ pred_in' = [pred_in EXCEPT !.cycles = @ + 1]
    /\ UNCHANGED StrategyVars

NextCycle == CloseCycle

SpecCycle == InitCycle /\ [][NextCycle]_vars

-----------------------------------------------------------------------------
(* Trailing stops: SpecStops runs open() from its trailing-stop block on   *)
(* and then close(), on a position built with trailing_stop_mode on.       *)
(* pred_in holds the venues of the position; pred_out holds where the      *)
(* position is, the stop orders the venues hold, the two recorded infos    *)
(* and the awaitables of the gather of close().                            *)

\* the buy and the sell venue of the position
StopVenues == { v \in Venues \X Venues : v[1] # v[2] }

\* one create_trailing_stop_order(exchange, amount, side, rate) of open()
StopTask(exchange_id, side) == [exchange |-> exchange_id, side |-> side]

\* trailing_stop_tasks, in the order of its appends (lines 365-401)
TrailingStopTasks(buy, sell) ==
    << StopTask(buy, "sell") >>
    \o ( IF buy = "bybit" THEN << StopTask(buy, "buy") >> ELSE << >> )
    \o << StopTask(sell, "buy") >>
    \o ( IF sell = "bybit" THEN << StopTask(sell, "sell") >> ELSE << >> )

\* what create_trailing_stop_order returns: the order of the venue, whose
\* id is here the place of the call in trailing_stop_tasks, or the mock
\* response with id 'failed_...' (lines 234-241, 267-277)
StopResult(task, n, status) ==
    [ id |-> IF status = "open" THEN n ELSE 0, exchange |-> task.exchange,
      side |-> task.side, status |-> status ]

\* None
NoInfo == [id |-> 0, exchange |-> "none", side |-> "none", status |-> "none"]

\* lines 407-436: the info taken from trailing_results[i - 1], set to None
\* when it is a mock response
RecordedInfo(results, i) ==
    IF results[i].status = "failed" THEN NoInfo ELSE results[i]

\* lines 605-613, 624-632: an info with an id that is no 'failed_' id
Cancellable(info) == info # NoInfo /\ info.status # "failed"

CloseTask(kind, exchange_id, id) ==
    [kind |-> kind, exchange |-> exchange_id, id |-> id, state |-> "created"]

\* close_tasks of close(), in the order of its appends (lines 601-648)
CloseTasks(buy, sell, buy_info, sell_info) ==
    ( IF Cancellable(buy_info)
      THEN << CloseTask("cancel_order", buy, buy_info.id) >> ELSE << >> )
    \o ( IF Cancellable(sell_info)
         THEN << CloseTask("cancel_order", sell, sell_info.id) >> ELSE << >> )
    \o << CloseTask("close_position", buy, 0),
          CloseTask("close_position", sell, 0),
          CloseTask("cancel_all_orders", buy, 0),
          CloseTask("cancel_all_orders", sell, 0) >>

\* the stop orders a venue holds after it has served the request of a task
StopsAfter(stops, task) ==
    CASE task.kind = "cancel_order" ->
           { o \in stops : ~ (o.exchange = task.exchange /\ o.id = task.id) }
      [] task.kind = "cancel_all_orders" ->
           { o \in stops : o.exchange # task.exchange }
      [] OTHER -> stops

\* the venue has no such order: cancel_order raises OrderNotFound
VenueRaises(stops, task) ==
    /\ task.kind = "cancel_order"
    /\ ~ \E o \in stops : o.exchange = task.exchange /\ o.id = task.id

\* both primary legs are placed and open() is at the gather of line 403
InitStops ==
    /\ now = 0
    /\ feed_queue = << >>
    /\ pc = "get"
    /\ spreads = << >>
    /\ positions_to_close = << >>
    /\ closing = {}
    /\ closed_positions_markets = {}
    /\ positions_to_open = << >>
    /\ open_idx = 0
    /\ opening = NoPosition
    /\ open_calls = << >>
    /\ positions = EmptyDict
    /\ exchange_balances = EmptyDict
    /\ funding_rates = EmptyDict
    /\ consider_funding = FALSE
    /\ commission_cache = EmptyDict
    /\ submitted = << >>
    /\ close_calls = << >>
    /\ pred_in \in { [ op |-> "trailing_stops", buy |-> v[1], sell |-> v[2] ] :
                     v \in StopVenues }
    /\ pred_out = [ at |-> "open", stops |-> {}, buy_info |-> NoInfo,
                    sell_info |-> NoInfo, tasks |-> << >> ]

\* the gather of line 403 returns and open() records the two infos
\* (lines 403-436)
StopsCreated ==
    /\ pred_out.at = "open"
    /\ LET stop_tasks == TrailingStopTasks(pred_in.buy, pred_in.sell)
       IN  \E status \in [1..Len(stop_tasks) -> {"open", "failed"}] :
             LET trailing_results ==
                   [i \in 1..Len(stop_tasks) |->
                      StopResult(stop_tasks[i], i, status[i])]
             IN  pred_out' =
                   [pred_out EXCEPT
                      !.at = "opened",
                      !.stops = { trailing_results[i] :
                                    i \in { j \in 1..Len(stop_tasks) :
                                              status[j] = "open" } },
                      !.buy_info = RecordedInfo(trailing_results, 1),
                      !.sell_info = RecordedInfo(trailing_results, 2)]
    /\ UNCHANGED pred_in
    /\ UNCHANGED StrategyVars

\* close() is called and runs to its gather (lines 598-650)
CloseStart ==
    /\ pred_out.at = "opened"
    /\ pred_out' = [pred_out EXCEPT
                      !.at = "closing",
                      !.tasks = CloseTasks(pred_in.buy, pred_in.sell,
                                           pred_out.buy_info,
                                           pred_out.sell_info)]
    /\ UNCHANGED pred_in
    /\ UNCHANGED StrategyVars

\* the event loop starts the awaitables of the gather in their order; each
\* runs until it has sent its request
RequestSent ==
    /\ pred_out.at = "closing"
    /\ \E i \in 1..Len(pred_out.tasks) :
         /\ pred_out.tasks[i].state = "created"
         /\ \A j \in 1..(i - 1) : pred_out.tasks[j].state # "created"
         /\ pred_out' = [pred_out EXCEPT !.tasks[i].state = "sent"]
    /\ UNCHANGED pred_in
    /\ UNCHANGED StrategyVars

\* a venue serves a request it was sent, and the awaitable is done
RequestServed ==
    /\ pred_out.at = "closing"
    /\ \E i \in 1..Len(pred_out.tasks) :
         /\ pred_out.tasks[i].state = "sent"
         /\ pred_out' =
              [pred_out EXCEPT
                 !.tasks[i].state =
                    IF VenueRaises(pred_out.stops, pred_out.tasks[i])
                    THEN "exc" ELSE "ok",
                 !.stops = StopsAfter(pred_out.stops, pred_out.tasks[i])]
    /\ UNCHANGED pred_in
    /\ UNCHANGED StrategyVars

\* the gather of close() returns and the infos are reset (lines 650-671)
CloseReturns ==
    /\ pred_out.at = "closing"
    /\ \A i \in 1..Len(pred_out.tasks) :
         pred_out.tasks[i].state \in {"ok", "exc"}
    /\ pred_out' = [pred_out EXCEPT !.at = "closed", !.buy_info = NoInfo,
                                    !.sell_info = NoInfo]
    /\ UNCHANGED pred_in
    /\ UNCHANGED StrategyVars

NextStops ==
    \/ StopsCreated
    \/ CloseStart
    \/ RequestSent
    \/ RequestServed
    \/ CloseReturns

SpecStops == InitStops /\ [][NextStops]_vars

-----------------------------------------------------------------------------
(* Properties of the position manager *)

\* the instruments self.positions holds a position of
PositionMarkets == { positions[k].market : k \in DOMAIN positions }

IsPrimaryOrder(order) == order.type = "market" /\ ~ order.reduceOnly

\* the primary orders sent in this call of process_positions
PrimaryOrdersSent ==
    { i \in 1..Len(submitted) : IsPrimaryOrder(submitted[i]) }

\* the open() calls of this call of process_positions that sent their legs
CallsWithOrders ==
    { i \in 1..Len(open_calls) : open_calls[i].buy_order # "none" }

\* C1: self.positions holds at most one position per instrument, under the
\* instrument's own key; process_positions is never waiting on the open
\* orders of an instrument that has an entry, calls open() for no
\* instrument after an open() of this cycle inserted it, and the open
\* orders it has sent are those of its open() calls alone, two per call.
C1_OnePositionPerInstrument ==
    /\ \A m \in Markets :
         Cardinality({ k \in DOMAIN positions : positions[k].market = m }) <= 1
    /\ \A k \in DOMAIN positions : positions[k].market = k
    /\ pc = "open_await" => opening.market \notin PositionMarkets
    /\ \A i, j \in 1..Len(open_calls) :
         (i < j /\ open_calls[i].ret = "True")
            => open_calls[j].key[1] # open_calls[i].key[1]
    /\ Cardinality(PrimaryOrdersSent)
         = 2 * ( Cardinality(CallsWithOrders)
                 + (IF pc = "open_await" THEN 1 ELSE 0) )

\* C1: a cycle with two candidates of one instrument has returned; the first
\* was opened, the second was passed over although both of its venues had
\* the balance for it
C1_SecondCandidateSkipped ==
    /\ pc = "returned"
    /\ Len(positions_to_open) = 2
    /\ positions_to_open[1].market = positions_to_open[2].market
    /\ Len(open_calls) = 1
    /\ open_calls[1].ret = "True"
    /\ positions_to_open[2].market \in PositionMarkets
    /\ BalanceGet(exchange_balances, positions_to_open[2].buy_exchange)
         >= PositionSize(positions_to_open[2])
    /\ BalanceGet(exchange_balances, positions_to_open[2].sell_exchange)
         >= PositionSize(positions_to_open[2])

\* C2: no entry of exchange_balances is ever negative, whatever the
\* interleaving of process_positions with the balance refresher
C2_BalancesNeverNegative ==
    \A v \in DOMAIN exchange_balances : exchange_balances[v] >= 0

\* the open() that process_positions was waiting on returned False because
\* a primary leg raised
LegFailedStep ==
    /\ pc = "open_await"
    /\ Len(open_calls') > Len(open_calls)
    /\ open_calls'[Len(open_calls) + 1].ret = "False"

\* C3: an open() with a primary leg that raised returns False and its
\* position is not in self.positions; the step in which it returns leaves
\* self.positions and exchange_balances as they were and sends nothing but,
\* at most, the two primary orders of the next candidate: no order that
\* would undo the leg that went through.
C3_FailedLegLeavesNoTrace ==
    /\ [] ( \A i \in 1..Len(open_calls) :
              (open_calls[i].buy_order = "exc" \/ open_calls[i].sell_order = "exc")
                 => /\ open_calls[i].ret = "False"
                    /\ \A k \in DOMAIN positions :
                         PositionKey(positions[k]) # open_calls[i].key )
    /\ [][ LegFailedStep =>
             /\ positions' = positions
             /\ exchange_balances' = exchange_balances
             /\ \/ submitted' = submitted
                \/ /\ pc' = "open_await"
                   /\ PositionKey(opening') # PositionKey(opening)
                   /\ submitted' = submitted \o
                        PrimaryOrders(opening', GetOrderAmount(opening')) ]_vars

\* C3: an open() whose buy leg went through and whose sell leg raised has
\* returned False: one leg is live on the buy venue and nothing is recorded
C3_OneLegRaised ==
    /\ pc = "returned"
    /\ \E i \in 1..Len(open_calls) :
         /\ open_calls[i].buy_order = "ok"
         /\ open_calls[i].sell_order = "exc"
         /\ open_calls[i].ret = "False"
         /\ open_calls[i].key[1] \notin PositionMarkets
    /\ \A i \in 1..Len(submitted) : IsPrimaryOrder(submitted[i])

\* the keys of self.positions whose close() this call of process_positions
\* has invoked
ClosedThisCycle == { close_calls[i] : i \in 1..Len(close_calls) }

\* the reduce-only orders among sent that go to one venue for one market
ReduceOnlySent(sent, exchange_id, market) ==
    { i \in 1..Len(sent) : /\ sent[i].reduceOnly
                           /\ sent[i].exchange = exchange_id
                           /\ sent[i].market = market }

\* process_feed takes a delta and enters process_positions
EntersProcessPositions == pc = "get" /\ pc' # "get"

\* position k is open, its key is in the spreads of the delta just taken and
\* the close predicate holds for it
CloseDue(k) ==
    LET key == PositionKey(positions[k])
    IN  /\ key \in SpreadKeys(spreads')
        /\ HaveToClosePosition(positions[k], SpreadAt(spreads', key), now, now,
                               consider_funding, funding_rates)

\* close() of position k was invoked exactly once
ClosedOnce(k) ==
    Cardinality({ i \in 1..Len(close_calls') : close_calls'[i] = k }) = 1

\* a reduce-only market order for the stored count went to the leg's venue
LegOrderSent(k, side) ==
    LET position == positions[k]
        exchange_id == IF side = "buy" THEN position.buy_exchange
                       ELSE position.sell_exchange
        amount == IF side = "buy" THEN position.bought_amount
                  ELSE position.sold_amount
        side_to_close == IF side = "buy" THEN "sell" ELSE "buy"
    IN  \E i \in ReduceOnlySent(submitted', exchange_id, position.market) :
          /\ submitted'[i].type = "market"
          /\ submitted'[i].side = side_to_close
          /\ submitted'[i].amount = amount

\* no reduce-only order went to the leg's venue
NoLegOrderSent(k, side) ==
    LET position == positions[k]
        exchange_id == IF side = "buy" THEN position.buy_exchange
                       ELSE position.sell_exchange
    IN  ReduceOnlySent(submitted', exchange_id, position.market) = {}

StoredCount(k, side) ==
    IF side = "buy" THEN positions[k].bought_amount
    ELSE positions[k].sold_amount

\* when process_positions has returned, the positions it closed are gone
ClosedAreRemoved ==
    pc = "returned" => ClosedThisCycle \cap DOMAIN positions = {}

\* C7 as stated: whenever the close predicate holds for an open position
\* whose key is in the delta's spreads, close() is invoked exactly once, a
\* reduce-only market order for the stored count is sent to both venues, and
\* the entry is gone when process_positions returns.
C7_CloseSendsBothLegs ==
    /\ [][ EntersProcessPositions =>
             \A k \in DOMAIN positions :
               CloseDue(k) => /\ ClosedOnce(k)
                              /\ LegOrderSent(k, "buy")
                              /\ LegOrderSent(k, "sell") ]_vars
    /\ [] ClosedAreRemoved

\* C7 amended: whenever the close predicate holds for an open position whose
\* key is in the delta's spreads, close() is invoked exactly once, a
\* reduce-only market order for the stored count is sent to each venue whose
\* stored count is positive and none to a venue whose stored count is zero,
\* and the entry is gone when process_positions returns.
C7_CloseSendsLegsHeld ==
    /\ [][ EntersProcessPositions =>
             \A k \in DOMAIN positions :
               CloseDue(k) =>
                 /\ ClosedOnce(k)
                 /\ \A side \in {"buy", "sell"} :
                      IF StoredCount(k, side) > 0
                      THEN LegOrderSent(k, side)
                      ELSE NoLegOrderSent(k, side) ]_vars
    /\ [] ClosedAreRemoved

\* C7: a cycle that closed one position has returned: its entry is gone and
\* a reduce-only order went to both of its venues
C7_PositionClosed ==
    /\ pc = "returned"
    /\ Len(close_calls) = 1
    /\ close_calls[1] \notin DOMAIN positions
    /\ Cardinality({ i \in 1..Len(submitted) : submitted[i].reduceOnly }) = 2

\* C8: an instrument closed in this cycle is no open candidate of the cycle,
\* no open() is called and no primary order is sent for it, and it has no
\* entry again while the cycle lasts.
C8_ClosedNotReopened ==
    /\ \A i \in 1..Len(positions_to_open) :
         positions_to_open[i].market \notin ClosedThisCycle
    /\ \A i \in 1..Len(open_calls) : open_calls[i].key[1] \notin ClosedThisCycle
    /\ pc = "open_await" => opening.market \notin ClosedThisCycle
    /\ \A i \in PrimaryOrdersSent : submitted[i].market \notin ClosedThisCycle
    /\ pc \in {"open_await", "returned"}
         => ClosedThisCycle \cap DOMAIN positions = {}

\* C8: the cycle closed an instrument, a spread of the delta for that
\* instrument passes the open predicate, and the cycle has returned
\* without an open() for it
C8_OpenableSpreadOfClosed ==
    /\ pc = "returned"
    /\ ClosedThisCycle # {}
    /\ \E i \in 1..Len(spreads) :
         /\ spreads[i].market \in ClosedThisCycle
         /\ HaveToOpenPosition(spreads[i], now, consider_funding, funding_rates)
    /\ \A i \in 1..Len(open_calls) : open_calls[i].key[1] \notin ClosedThisCycle

\* C9: while an open order of the cycle is awaited, and once any primary
\* order of the cycle has been sent, no close() of the cycle is in flight
\* and the closed positions are out of the map; every close order and
\* cancellation of the cycle was sent before its first primary order.
C9_ClosesBeforeOpens ==
    /\ pc = "open_await" => closing = {}
    /\ PrimaryOrdersSent # {}
         => /\ closing = {}
            /\ ClosedThisCycle \cap DOMAIN positions = {}
    /\ \A i, j \in 1..Len(submitted) :
         (IsPrimaryOrder(submitted[i]) /\ ~ IsPrimaryOrder(submitted[j]))
            => j < i

\* C9: the cycle has closed a position and is now waiting on the primary
\* orders of an open
C9_OpenAfterClose ==
    /\ pc = "open_await"
    /\ ClosedThisCycle # {}
    /\ PrimaryOrdersSent # {}

\* C10: a delta leaves feed_queue only when process_feed is at its get(),
\* with no close() and no open() of an earlier delta in flight.
C10_OneDeltaAtATime ==
    [][ Len(feed_queue') < Len(feed_queue)
          => /\ pc = "get"
             /\ closing = {}
             /\ opening = NoPosition ]_vars

\* C10: a delta waits in feed_queue while process_positions is suspended on
\* the orders of the delta before
C10_DeltaWaits ==
    /\ feed_queue # << >>
    /\ pc \in {"closing", "open_await"}

\* the pre-flight check of lines 329-338 fails for the candidate
ShortOfBalance(position, balances) ==
    \/ BalanceGet(balances, position.buy_exchange) < PositionSize(position)
    \/ BalanceGet(balances, position.sell_exchange) < PositionSize(position)

\* process_positions runs its open loop: it enters it, or goes on in it after
\* an open() returned, up to the next open() it waits on or to its return
OpenLoopStep ==
    /\ pc' \in {"open_await", "returned"}
    /\ pc # pc' \/ open_idx' # open_idx

\* the candidates the loop passes in the step without waiting on their open()
PassedOver ==
    { i \in 1..Len(positions_to_open') :
        /\ i > (IF pc = "open_await" THEN open_idx ELSE 0)
        /\ i < (IF pc' = "open_await" THEN open_idx'
                ELSE Len(positions_to_open') + 1) }

\* C11: a candidate (a spread the open predicate holds for) whose buy or
\* sell venue has less than usd_amount * size_buffer_factor in
\* exchange_balances, a missing venue counting as 0, is passed over: open()
\* is not called for it, the loop sends no order for it (the orders a step
\* of the loop sends are the two of the candidate it then waits on, whose
\* venues both have the balance), and the step changes self.positions and
\* exchange_balances only by what the closes and the open() that returned
\* in it account for.
C11_ShortOfBalanceNotOpened ==
    [][ OpenLoopStep =>
          /\ \A i \in PassedOver :
               ShortOfBalance(positions_to_open'[i], exchange_balances')
                 => \A c \in 1..Len(open_calls') :
                      open_calls'[c].key # PositionKey(positions_to_open'[i])
          /\ IF pc' = "open_await"
             THEN /\ ~ ShortOfBalance(opening', exchange_balances')
                  /\ submitted' = submitted \o
                       PrimaryOrders(opening', GetOrderAmount(opening'))
             ELSE submitted' = submitted
          /\ IF pc = "open_await"
             THEN /\ \A k \in (DOMAIN positions \cup DOMAIN positions')
                                \ {opening.market} :
                         /\ k \in DOMAIN positions \cap DOMAIN positions'
                         /\ positions'[k] = positions[k]
                  /\ \A v \in DOMAIN exchange_balances
                             \ {opening.buy_exchange, opening.sell_exchange} :
                         exchange_balances'[v] = exchange_balances[v]
                  /\ DOMAIN exchange_balances' = DOMAIN exchange_balances
             ELSE /\ exchange_balances' = exchange_balances
                  /\ positions' = Del(positions, ClosedThisCycle') ]_vars

\* C11: a cycle has returned with no open() call and no order although it had
\* a candidate of an instrument without a position; the candidate's buy
\* venue has the balance and its sell venue has not
C11_SellVenueShort ==
    /\ pc = "returned"
    /\ open_calls = << >>
    /\ submitted = << >>
    /\ \E i \in 1..Len(positions_to_open) :
         LET position == positions_to_open[i]
         IN  /\ position.market \notin PositionMarkets
             /\ GetOrderAmount(position) # InvalidOrder
             /\ BalanceGet(exchange_balances, position.buy_exchange)
                  >= PositionSize(position)
             /\ BalanceGet(exchange_balances, position.sell_exchange)
                  < PositionSize(position)

\* C12: when process_feed has been cancelled, every open() of the cycle
\* whose two primary orders were both placed has its position in
\* self.positions: no open ends with both legs placed and the position
\* absent from the map.
C12_CancelledOpenIsRecorded ==
    pc = "cancelled" =>
      \A i \in 1..Len(open_calls) :
        (open_calls[i].buy_order = "ok" /\ open_calls[i].sell_order = "ok")
          => /\ open_calls[i].key[1] \in DOMAIN positions
             /\ PositionKey(positions[open_calls[i].key[1]]) = open_calls[i].key

\* usd_amount is below the larger of the two venues' minimum notionals for
\* the market of the key, a missing minimum counting as 5
BelowMinNotional(key) ==
    usd_amount < Max(MinCostOr5(key[2], key[1]), MinCostOr5(key[3], key[1]))

\* C22: orders are sent only for a position whose usd_amount is at least
\* the larger of its two venues' minimum notionals (a missing one counting
\* as 5).  For a candidate below it open() returns False with no order on
\* either venue, the position is not put into self.positions, and the loop
\* goes on: a step of the open loop sends the two orders of the candidate
\* it then waits on and no other, and changes exchange_balances only on the
\* venues of the open() that returned in it.
C22_BelowMinNotionalNotOpened ==
    /\ [] ( /\ \A i \in 1..Len(open_calls) :
                 BelowMinNotional(open_calls[i].key)
                   => /\ open_calls[i].ret = "False"
                      /\ open_calls[i].buy_order = "none"
                      /\ open_calls[i].sell_order = "none"
            /\ pc = "open_await" => ~ BelowMinNotional(PositionKey(opening))
            /\ \A k \in DOMAIN positions :
                 ~ BelowMinNotional(PositionKey(positions[k])) )
    /\ [][ OpenLoopStep =>
             /\ submitted' =
                  submitted \o (IF pc' = "open_await"
                                THEN PrimaryOrders(opening',
                                                   GetOrderAmount(opening'))
                                ELSE << >>)
             /\ \A v \in DOMAIN exchange_balances :
                  exchange_balances'[v] # exchange_balances[v]
                    => /\ pc = "open_await"
                       /\ v \in {opening.buy_exchange, opening.sell_exchange}
                       /\ ~ BelowMinNotional(PositionKey(opening)) ]_vars

\* C22: in one cycle open() returned False without an order for a candidate
\* whose sell venue asks for a notional of 20, both of whose venues had the
\* balance, and the loop went on to a later candidate and opened it
C22_RefusedThenNextOpened ==
    /\ pc = "returned"
    /\ \E i, j \in 1..Len(open_calls) :
         /\ i < j
         /\ BelowMinNotional(open_calls[i].key)
         /\ MinCostOr5(open_calls[i].key[3], open_calls[i].key[1]) = 20 * UsdScale
         /\ open_calls[i].ret = "False"
         /\ open_calls[i].buy_order = "none"
         /\ open_calls[j].ret = "True"
    /\ \A i \in 1..Len(submitted) : submitted[i].market # "ETH"

Selecting == pred_in # NoPred /\ pred_in.op = "select"

Selected == { pred_out[i] : i \in 1..Len(pred_out) }

\* the spreads of the delta that have the key of position k
OwnSpreads(k) ==
    LET position == pred_in.positions[k]
    IN  { i \in 1..Len(pred_in.spreads) :
            /\ pred_in.spreads[i].market = position.market
            /\ pred_in.spreads[i].buy_exchange_id = position.buy_exchange
            /\ pred_in.spreads[i].sell_exchange_id = position.sell_exchange }

\* the holding time of position k is over at the call
HeldOut(k) ==
    pred_in.positions[k].opened_at
      + close_position_after_seconds * MsPerSecond < pred_in.current_time

\* C40: a position is selected for close exactly when the delta has a
\* spread of its own instrument, buy venue and sell venue and that spread
\* is at or below the raw-spread threshold or the holding time is over;
\* spreads of other keys select nothing, whatever the time.
C40_ClosedAgainstOwnKeyOnly ==
    Selecting =>
      \A k \in DOMAIN pred_in.positions :
        /\ OwnSpreads(k) = {} => k \notin Selected
        /\ k \in Selected <=>
             \E i \in OwnSpreads(k) :
               \/ HeldOut(k)
               \/ pred_in.spreads[i].raw_spread
                    <= close_position_raw_spread_threshold

\* C40: the holding time of the BTC position is over and the delta has a
\* spread of the mirror key and spreads of other venues and of the other
\* instrument, all low enough to close, but none of its key: nothing is
\* selected
C40_HeldOutButNoOwnSpread ==
    /\ Selecting
    /\ DOMAIN pred_in.positions = {"BTC"}
    /\ HeldOut("BTC")
    /\ Len(pred_in.spreads) = 3
    /\ \A i \in 1..3 : /\ pred_in.spreads[i].raw_spread
                            = close_position_raw_spread_threshold
                       /\ SpreadKey(pred_in.spreads[i]) # SelectKeys[1]
    /\ pred_out = << >>

\* an open() of this step has raised after both of its legs were placed
OpenRaised ==
    /\ Len(open_calls') = Len(open_calls) + 1
    /\ open_calls'[Len(open_calls')].ret = "raise"

\* the candidates after the one whose open() raised that the loop would
\* have called open() for
LeftOut ==
    LET raised == open_calls[Len(open_calls)]
        at == CHOOSE i \in 1..Len(positions_to_open) :
                PositionKey(positions_to_open[i]) = raised.key
    IN  { j \in (at + 1)..Len(positions_to_open) :
            /\ ~ Skipped(positions_to_open[j], positions, exchange_balances)
            /\ GetOrderAmount(positions_to_open[j]) # InvalidOrder }

\* C38: when fetch_positions raises after both primary legs of an open were
\* placed, the two orders have been sent, the position is not inserted, no
\* balance is taken, process_positions is left at once and no order of a
\* later candidate is sent in the cycle.
C38_RaisedOpenLeavesNoTrace ==
    /\ [][ OpenRaised =>
             LET call == open_calls'[Len(open_calls')]
             IN  /\ call.buy_order = "ok"
                 /\ call.sell_order = "ok"
                 /\ call.key = PositionKey(opening)
                 /\ \E i \in 1..(Len(submitted) - 1) :
                      << submitted[i], submitted[i + 1] >>
                        = PrimaryOrders(opening, GetOrderAmount(opening))
                 /\ call.key[1] \notin DOMAIN positions'
                 /\ positions' = positions
                 /\ exchange_balances' = exchange_balances
                 /\ submitted' = submitted
                 /\ pc' = "returned" ]_vars
    /\ [] ( \A i \in 1..Len(open_calls) :
              open_calls[i].ret = "raise" => i = Len(open_calls) )

\* C38: the open() of the first candidate raised after its legs were placed,
\* and the cycle has ended without an open() for a later candidate of
\* another instrument whose venues had the balance
C38_LaterCandidateNotAttempted ==
    /\ pc = "returned"
    /\ open_calls # << >>
    /\ open_calls[Len(open_calls)].ret = "raise"
    /\ open_calls[Len(open_calls)].key[1] \notin DOMAIN positions
    /\ LeftOut # {}

\* the step removes a position from self.positions
PositionRemoved == \E k \in DOMAIN positions : k \notin DOMAIN positions'

\* the step is a refresh of fetch_balance_data: the map is replaced by what
\* the venues report and process_positions does not move
BalanceRefreshed ==
    /\ exchange_balances' \in BalanceMaps
    /\ UNCHANGED << pc, positions, submitted, open_calls >>

\* the step is an open() that returned True: one position is inserted and
\* its size is taken off the balances of its two venues, nothing else
BalanceTakenByOpen ==
    \E k \in DOMAIN positions' \ DOMAIN positions :
      LET position == positions'[k]
          size == PositionSize(position)
      IN  /\ DOMAIN positions' = DOMAIN positions \cup {k}
          /\ exchange_balances' =
               [exchange_balances EXCEPT
                  ![position.buy_exchange] = @ - size,
                  ![position.sell_exchange] = @ - size]

\* C33: the step in which process_positions has closed positions and takes
\* them out of self.positions leaves exchange_balances as it was, and
\* exchange_balances changes in no step but a refresh of
\* fetch_balance_data and an open() that returned True.
C33_CloseLeavesBalances ==
    [][ /\ PositionRemoved => exchange_balances' = exchange_balances
        /\ exchange_balances' # exchange_balances
             => BalanceRefreshed \/ BalanceTakenByOpen ]_vars

\* C33: process_positions has closed the only position and returned, and
\* the balances of the two venues it was on are still short of its size
C33_ClosedAndStillDebited ==
    /\ pc = "returned"
    /\ closed_positions_markets # {}
    /\ positions = EmptyDict
    /\ \E v \in DOMAIN exchange_balances :
         exchange_balances[v]
           = 12 * UsdScale - (usd_amount * size_buffer_factor) \div PctScale

-----------------------------------------------------------------------------
(* Properties of analyze_arbitrage, stated on the call pred_in records *)

Analyzed == pred_in # NoPred /\ pred_in.op = "analyze_arbitrage"

\* exchange_data.keys()
InVenues ==
    { pred_in.exchange_data[i].exchange : i \in 1..Len(pred_in.exchange_data) }

\* exchange_data[exchange_id]
InData(exchange_id) ==
    pred_in.exchange_data[CHOOSE i \in 1..Len(pred_in.exchange_data) :
                            pred_in.exchange_data[i].exchange = exchange_id
                         ].markets

\* now_ms minus the older of the two quotes of the pair
PairAge(buy, sell, market) ==
    pred_in.current_timestamp
      - Min(InData(buy)[market].timestamp, InData(sell)[market].timestamp)

\* the keys of new_spreads
OutKeys == { SpreadKey(pred_out[i]) : i \in 1..Len(pred_out) }

\* new_spreads[key]
OutAt(key) == pred_out[CHOOSE i \in 1..Len(pred_out) : SpreadKey(pred_out[i]) = key]

\* C14: no spread of new_spreads is older than
\* analyze_arbitrage_max_data_age_ms, its age being now_ms minus its
\* min_timestamp and its min_timestamp the older of the timestamps of the
\* buy venue's and the sell venue's quote: a pair with one quote past the
\* limit yields no spread however fresh the other quote is.
C14_NoStaleSpread ==
    Analyzed =>
      /\ \A i \in 1..Len(pred_out) :
           LET spread == pred_out[i]
           IN  /\ spread.min_timestamp
                    = Min(InData(spread.buy_exchange_id)[spread.market].timestamp,
                          InData(spread.sell_exchange_id)[spread.market].timestamp)
               /\ pred_in.current_timestamp - spread.min_timestamp
                    <= analyze_arbitrage_max_data_age_ms
      /\ \A buy \in InVenues :
           \A sell \in InVenues \ {buy} :
             \A market \in DOMAIN InData(buy) \cap DOMAIN InData(sell) :
               PairAge(buy, sell, market) > analyze_arbitrage_max_data_age_ms
                 => <<market, buy, sell>> \notin OutKeys

\* C14: bybit's quotes are past the limit, binance's and okx's are fresh;
\* the call returned the spreads between binance and okx and none with bybit
C14_OneSideStale ==
    /\ Analyzed
    /\ InVenues = Venues
    /\ pred_in.current_timestamp - InData("binance")["BTC"].timestamp
         < analyze_arbitrage_max_data_age_ms
    /\ pred_in.current_timestamp - InData("bybit")["BTC"].timestamp
         > analyze_arbitrage_max_data_age_ms
    /\ <<"BTC", "binance", "okx">> \in OutKeys
    /\ <<"BTC", "binance", "bybit">> \notin OutKeys
    /\ <<"BTC", "bybit", "binance">> \notin OutKeys

\* the keys (instrument, buy venue, sell venue) of the ordered pairs of
\* distinct venues of exchange_data and the instruments both quote, whose
\* older quote passes the age gate
FreshPairKeys ==
    { key \in Markets \X InVenues \X InVenues :
        /\ key[2] # key[3]
        /\ key[1] \in DOMAIN InData(key[2]) \cap DOMAIN InData(key[3])
        /\ PairAge(key[2], key[3], key[1]) <= analyze_arbitrage_max_data_age_ms }

\* C15: analyze_arbitrage returns exactly one SpreadData for every ordered
\* pair of distinct venues and every instrument both quote (of those past
\* the age gate) and nothing else, under the key (instrument, buy venue,
\* sell venue), with buy_price the buy venue's ask and sell_price the sell
\* venue's bid; no spread has the same venue on both sides, and empty
\* input, a single venue and venues without a common instrument give none.
C15_OneSpreadPerPairAndMarket ==
    Analyzed =>
      /\ OutKeys = FreshPairKeys
      /\ Len(pred_out) = Cardinality(FreshPairKeys)
      /\ \A i \in 1..Len(pred_out) :
           LET spread == pred_out[i]
           IN  /\ spread.buy_exchange_id # spread.sell_exchange_id
               /\ spread.buy_price
                    = InData(spread.buy_exchange_id)[spread.market].ask
               /\ spread.sell_price
                    = InData(spread.sell_exchange_id)[spread.market].bid
      /\ ( \/ Len(pred_in.exchange_data) < 2
           \/ \A v \in InVenues : \A w \in InVenues \ {v} :
                DOMAIN InData(v) \cap DOMAIN InData(w) = {} )
           => pred_out = << >>

\* C15: three venues with fresh quotes of both instruments: twelve spreads,
\* one per ordered pair and instrument, each buying at an ask above the bid
\* of the same venue
C15_ThreeVenuesTwoMarkets ==
    /\ Analyzed
    /\ InVenues = Venues
    /\ Len(pred_out) = 12
    /\ Cardinality(OutKeys) = 12
    /\ \A i \in 1..Len(pred_out) :
         pred_out[i].buy_price
           > InData(pred_out[i].buy_exchange_id)[pred_out[i].market].bid

\* C16: the keys of one call are closed under swapping the buy and the
\* sell venue: with (instrument, A, B) the call also returns
\* (instrument, B, A).
C16_MirrorKeyProduced ==
    Analyzed =>
      \A key \in OutKeys : <<key[1], key[3], key[2]>> \in OutKeys

\* C16: two venues whose quotes differ in age, one fresh and one exactly at
\* the limit: the call returned both directions of both instruments
C16_BothDirectionsKept ==
    /\ Analyzed
    /\ InVenues = {"binance", "bybit"}
    /\ DOMAIN InData("binance") = Markets
    /\ DOMAIN InData("bybit") = Markets
    /\ InData("binance")["BTC"].timestamp > InData("bybit")["BTC"].timestamp
    /\ OutKeys = { <<m, v[1], v[2]>> :
                     m \in Markets,
                     v \in { <<"binance", "bybit">>, <<"bybit", "binance">> } }

\* the keys returned together with their mirror
MirroredKeys ==
    { key \in OutKeys : <<key[1], key[3], key[2]>> \in OutKeys }

\* raw_spread(A, B) + raw_spread(B, A) for the key (instrument, A, B)
MirrorSum(key) ==
    OutAt(key).raw_spread + OutAt(<<key[1], key[3], key[2]>>).raw_spread

\* the venue's quote of the instrument has no bid-ask width
FlatQuote(exchange_id, market) ==
    InData(exchange_id)[market].bid = InData(exchange_id)[market].ask

\* C17 as stated: for every two mirrored spreads of one call,
\* raw_spread(A, B) = -raw_spread(B, A) up to the rounding of the two
\* divisions, whatever the quotes.
C17_MirrorSpreadsOpposite ==
    Analyzed =>
      \A key \in MirroredKeys : MirrorSum(key) >= 0 - 2 /\ MirrorSum(key) <= 2

\* C17 amended: for every two mirrored spreads of one call,
\* raw_spread(A, B) = -raw_spread(B, A) up to rounding when bid = ask on
\* both venues; in general the two are not opposite and their sum is never
\* above zero (up to rounding).
C17_MirrorSpreadsOppositeIfFlat ==
    Analyzed =>
      \A key \in MirroredKeys :
        /\ MirrorSum(key) <= 2
        /\ (FlatQuote(key[2], key[1]) /\ FlatQuote(key[3], key[1]))
             => MirrorSum(key) >= 0 - 2

\* C17: two venues quote one price each, bid = ask, and the prices differ:
\* the two directions are returned with nonzero spreads that cancel
C17_FlatQuotesMirrored ==
    /\ Analyzed
    /\ \E key \in MirroredKeys :
         /\ FlatQuote(key[2], key[1])
         /\ FlatQuote(key[3], key[1])
         /\ OutAt(key).raw_spread > 2
         /\ MirrorSum(key) >= 0 - 2
         /\ MirrorSum(key) <= 2

\* the cache keys (buy venue, sell venue, instrument) of the spreads sp
CacheKeys(sp) ==
    { <<sp[i].buy_exchange_id, sp[i].sell_exchange_id, sp[i].market>> :
        i \in 1..Len(sp) }

\* C18: every spread returned has commission
\* 2 * (taker fee of the buy venue + taker fee of the sell venue) * 100 and
\* net_spread = raw_spread - commission, and the cache holds that
\* commission under the spread's (buy venue, sell venue, instrument); a call
\* leaves every entry of the cache as it was, adds exactly the keys of the
\* spreads it returns that were missing, and returns for a key the
\* commission the call before returned for it.
C18_CommissionCachedOnce ==
    /\ [] ( Analyzed =>
              \A i \in 1..Len(pred_out) :
                LET spread == pred_out[i]
                    cache_key == << spread.buy_exchange_id,
                                    spread.sell_exchange_id, spread.market >>
                IN  /\ spread.commission
                         = 2 * ( Taker(spread.buy_exchange_id, spread.market)
                               + Taker(spread.sell_exchange_id, spread.market) )
                             * 100
                    /\ spread.net_spread = spread.raw_spread - spread.commission
                    /\ cache_key \in DOMAIN commission_cache
                    /\ commission_cache[cache_key] = spread.commission )
    /\ [][ /\ \A cache_key \in DOMAIN commission_cache :
               /\ cache_key \in DOMAIN commission_cache'
               /\ commission_cache'[cache_key] = commission_cache[cache_key]
           /\ DOMAIN commission_cache'
                = DOMAIN commission_cache \cup CacheKeys(pred_out')
           /\ Analyzed =>
                \A i \in 1..Len(pred_out) : \A j \in 1..Len(pred_out') :
                  SpreadKey(pred_out[i]) = SpreadKey(pred_out'[j])
                    => pred_out[i].commission = pred_out'[j].commission ]_vars

\* C18: a call has returned spreads whose commissions were in the cache
\* before it, together with entries of other keys it did not touch
C18_CacheHit ==
    /\ Analyzed
    /\ pred_out # << >>
    /\ CacheKeys(pred_out) \subseteq DOMAIN commission_cache
    /\ CacheKeys(pred_out) # DOMAIN commission_cache
    /\ \A i \in 1..Len(pred_out) :
         pred_out[i].commission = 2 * (100 + 150) * 100

-----------------------------------------------------------------------------
(* Properties of collect_feed, stated on the snapshot pred_in records *)

Collected == pred_in # NoPred /\ pred_in.op = "collect_feed"

\* the sum of price * size over the first k levels of a book side
RECURSIVE Notional(_, _)
Notional(side, k) ==
    IF k = 0 THEN 0 ELSE Notional(side, k - 1) + side[k][1] * side[k][2]

\* the sum of the sizes of the first k levels
RECURSIVE Volume(_, _)
Volume(side, k) == IF k = 0 THEN 0 ELSE Volume(side, k - 1) + side[k][2]

\* the side's cumulative notional reaches the target
DeepEnough(side) == Notional(side, Len(side)) >= target_amount

\* the level at which the cumulative notional first reaches the target
LastLevel(side) ==
    CHOOSE k \in 1..Len(side) :
      Notional(side, k) >= target_amount /\ Notional(side, k - 1) < target_amount

\* the base volume that makes up the target notional exactly: the levels
\* before the last whole, of the last level the part that is left to fill
ConsumedVolume(side) ==
    LET k == LastLevel(side)
    IN  Volume(side, k - 1)
          + (target_amount - Notional(side, k - 1)) \div side[k][1]

\* the quote the aggregator holds for the snapshot's venue and market
StoredQuote ==
    FeedMarkets(pred_out.feed, pred_in.orderbook.exchange)[pred_in.orderbook.market]

\* C19: after a snapshot whose bid side and ask side both have a cumulative
\* notional of at least usd_amount * leverage, the bid and the ask of the
\* venue's quote are the target notional divided by the base volume that
\* fills it, the levels taken in book order and the last one only as far as
\* the target needs.
C19_PriceIsTargetOverVolume ==
    ( /\ Collected
      /\ DeepEnough(pred_in.orderbook.bids)
      /\ DeepEnough(pred_in.orderbook.asks) )
      => /\ StoredQuote.bid
              = target_amount \div ConsumedVolume(pred_in.orderbook.bids)
         /\ StoredQuote.ask
              = target_amount \div ConsumedVolume(pred_in.orderbook.asks)

\* C19: the asks reach the target at their third level and the bids at
\* their second; both prices of the quote lie strictly between the best
\* and the last level taken
C19_FractionalLastLevel ==
    /\ Collected
    /\ DeepEnough(pred_in.orderbook.bids)
    /\ DeepEnough(pred_in.orderbook.asks)
    /\ LastLevel(pred_in.orderbook.asks) = 3
    /\ LastLevel(pred_in.orderbook.bids) = 2
    /\ StoredQuote.ask > pred_in.orderbook.asks[1][1]
    /\ StoredQuote.ask < pred_in.orderbook.asks[3][1]
    /\ StoredQuote.bid < pred_in.orderbook.bids[1][1]
    /\ StoredQuote.bid > pred_in.orderbook.bids[2][1]

\* collect_feed handles a snapshot one of whose sides has less than the
\* target notional in all its levels
ShallowSnapshotStep ==
    /\ pred_in' # NoPred
    /\ pred_in'.op = "collect_feed"
    /\ Len(feed_queue') >= Len(feed_queue)
    /\ \/ ~ DeepEnough(pred_in'.orderbook.bids)
       \/ ~ DeepEnough(pred_in'.orderbook.asks)

\* C20: a snapshot one of whose sides is short of the target notional
\* leaves the quotes the aggregator holds as they were, puts nothing on
\* feed_queue, and leaves the aggregator running: it takes the next
\* snapshot as soon as feed_queue has room.
C20_ShallowSnapshotRejected ==
    /\ [][ ShallowSnapshotStep =>
             /\ pred_out'.feed
                  = (IF pred_in = NoPred THEN FeedStart ELSE pred_out).feed
             /\ pred_out'.put = << >>
             /\ feed_queue' = feed_queue
             /\ pred_out'.running ]_vars
    /\ [] ( (Collected /\ Len(feed_queue) < MaxQueue) => ENABLED CollectFeed )

\* C20: bybit has a quote; its next snapshot has bids of the depth and asks
\* short of it: get_price raised, the error was logged, and bybit's quote
\* is the one of the earlier snapshot
C20_QuoteKeptAfterShallowAsks ==
    /\ Collected
    /\ DeepEnough(pred_in.orderbook.bids)
    /\ pred_in.orderbook.asks # << >>
    /\ ~ DeepEnough(pred_in.orderbook.asks)
    /\ pred_out.logged
    /\ pred_out.running
    /\ pred_out.put = << >>
    /\ pred_in.orderbook.market
         \in DOMAIN FeedMarkets(pred_out.feed, pred_in.orderbook.exchange)
    /\ StoredQuote.timestamp < pred_in.orderbook.timestamp

\* the distance in percent between the price get_price gives for a side and
\* the price of the side's first level
Slippage(side) ==
    LET best == side[1][1]
        price == GetPrice(side)
        away == IF price >= best THEN price - best ELSE best - price
    IN  ((away * PctScale) \div best) * 100

\* C21: no delta is put on feed_queue for a snapshot one of whose sides has
\* a volume-weighted price further than max_slippage_pct percent from the
\* price of its first level.
C21_HighSlippageNotForwarded ==
    ( /\ Collected
      /\ DeepEnough(pred_in.orderbook.bids)
      /\ DeepEnough(pred_in.orderbook.asks)
      /\ \/ Slippage(pred_in.orderbook.bids) > max_slippage_pct
         \/ Slippage(pred_in.orderbook.asks) > max_slippage_pct )
      => pred_out.put = << >>

\* collect_feed handles a snapshot in this step
CollectStep ==
    /\ pred_in' # NoPred
    /\ pred_in'.op = "collect_feed"
    /\ Len(feed_queue') >= Len(feed_queue)

\* the state of the aggregator before the step
FeedBefore == IF pred_in = NoPred THEN FeedStart ELSE pred_out

\* both sides of the book have levels and reach the target notional
Accepted(orderbook) ==
    /\ orderbook.bids # << >>
    /\ orderbook.asks # << >>
    /\ DeepEnough(orderbook.bids)
    /\ DeepEnough(orderbook.asks)

\* the venue has no quote of the snapshot's market in `feed`, or one whose
\* bid or ask is not the price the snapshot gives
Differs(feed, orderbook) ==
    LET stored == FeedMarkets(feed, orderbook.exchange)
    IN  \/ orderbook.market \notin DOMAIN stored
        \/ stored[orderbook.market].bid
             # target_amount \div ConsumedVolume(orderbook.bids)
        \/ stored[orderbook.market].ask
             # target_amount \div ConsumedVolume(orderbook.asks)

\* C29: the aggregator puts a delta on feed_queue for a snapshot exactly
\* when the snapshot is accepted (both sides non-empty and of the depth)
\* and the venue has no quote of the market yet or the snapshot's bid or
\* ask is not the stored one; an accepted snapshot with the stored bid and
\* ask leaves every stored quote, its timestamp included, as it was and
\* puts nothing.
C29_DeltaIffQuoteChanged ==
    [][ CollectStep =>
          /\ (pred_out'.put # << >>)
               <=> ( /\ Accepted(pred_in'.orderbook)
                     /\ Differs(FeedBefore.feed, pred_in'.orderbook) )
          /\ pred_out'.put # << >>
               => feed_queue' = Append(feed_queue, pred_out'.put[1])
          /\ pred_out'.put = << >>
               => /\ feed_queue' = feed_queue
                  /\ pred_out'.feed = FeedBefore.feed ]_vars

\* C29: binance sent a later snapshot that gives the bid and the ask it has
\* stored: nothing was put or logged, and the stored quote still carries
\* the timestamp of the earlier snapshot
C29_SameQuoteLaterSnapshot ==
    /\ Collected
    /\ Accepted(pred_in.orderbook)
    /\ ~ Differs(pred_out.feed, pred_in.orderbook)
    /\ pred_out.put = << >>
    /\ ~ pred_out.logged
    /\ StoredQuote.timestamp < pred_in.orderbook.timestamp

\* C36: the timestamp of a stored quote is that of the last snapshot that
\* changed its bid or its ask: an accepted snapshot with another bid or ask
\* (or the first of its venue and market) stores its own timestamp, an
\* accepted snapshot with the stored bid and ask leaves the stored
\* timestamp as it was, and a delta carries the stored timestamps.
C36_TimestampOfLastChange ==
    /\ [][ (CollectStep /\ Accepted(pred_in'.orderbook)) =>
             LET orderbook == pred_in'.orderbook
                 before == FeedMarkets(FeedBefore.feed, orderbook.exchange)
                 after == FeedMarkets(pred_out'.feed, orderbook.exchange)
             IN  /\ orderbook.market \in DOMAIN after
                 /\ after[orderbook.market].timestamp =
                      IF Differs(FeedBefore.feed, orderbook)
                      THEN orderbook.timestamp
                      ELSE before[orderbook.market].timestamp ]_vars
    /\ [] ( (Collected /\ pred_out.put # << >>) =>
              \A i \in 1..Len(pred_out.put[1]) :
                \A m \in DOMAIN pred_out.put[1][i].markets :
                  pred_out.put[1][i].markets[m] = pred_out.feed[i].markets[m] )

\* the time at which a quote of timestamp 100 is older than the age limit of
\* analyze_arbitrage and one of timestamp 200 is not
StaleAt == 100 + analyze_arbitrage_max_data_age_ms + 1

\* C36: bybit has a quote of timestamp 200 and binance has just sent, at
\* 200, the bid and the ask it sent at 100.  Its stored timestamp is still
\* 100, and at StaleAt analyze_arbitrage drops every spread of the two,
\* which it would not with the timestamp of the last snapshot
C36_LiveQuoteDroppedByAgeGate ==
    /\ Collected
    /\ pred_in.orderbook.exchange = "binance"
    /\ pred_in.orderbook.timestamp = 200
    /\ Accepted(pred_in.orderbook)
    /\ Len(pred_out.feed) = 2
    /\ DOMAIN FeedMarkets(pred_out.feed, "binance") = {"BTC"}
    /\ StoredQuote.timestamp = 100
    /\ "BTC" \in DOMAIN FeedMarkets(pred_out.feed, "bybit")
    /\ FeedMarkets(pred_out.feed, "bybit")["BTC"].timestamp = 200
    /\ StaleAt - 200 <= analyze_arbitrage_max_data_age_ms
    /\ AnalyzeArbitrage(EmptyDict, pred_out.feed, StaleAt) = << >>
    /\ AnalyzeArbitrage(EmptyDict,
                        FeedStore(pred_out.feed, "binance", "BTC",
                                  [StoredQuote EXCEPT !.timestamp = 200]),
                        StaleAt) # << >>

\* the entry of a venue in a delta
DeltaEntry(delta, exchange_id) == delta[FeedIndex(delta, exchange_id)]

\* C30: a delta holds the entry of the snapshot's venue alone, and in it
\* the quote of the snapshot's market alone.
C30_DeltaOfTouchedVenueOnly ==
    (Collected /\ pred_out.put # << >>)
      => /\ Len(pred_out.put[1]) = 1
         /\ pred_out.put[1][1].exchange = pred_in.orderbook.exchange
         /\ DOMAIN pred_out.put[1][1].markets = {pred_in.orderbook.market}

\* C30: a delta has one entry for every venue the aggregator holds a quote
\* of, whether that venue's quote changed or not; an entry holds the
\* venue's stored quote of the snapshot's market if the venue has one, and
\* no quote of any other market.
C30_DeltaOfTouchedMarketAllVenues ==
    (Collected /\ pred_out.put # << >>)
      => LET delta == pred_out.put[1]
             market == pred_in.orderbook.market
         IN  /\ Len(delta) = Len(pred_out.feed)
             /\ \A i \in 1..Len(delta) :
                  /\ delta[i].exchange = pred_out.feed[i].exchange
                  /\ DOMAIN delta[i].markets
                       = DOMAIN pred_out.feed[i].markets \cap {market}
                  /\ \A m \in DOMAIN delta[i].markets :
                       delta[i].markets[m] = pred_out.feed[i].markets[m]

\* C30: bybit's snapshot changed bybit's quote of BTC; the delta carries it
\* together with the quote of BTC binance has had since an earlier snapshot,
\* and nothing of ETH, which binance has a quote of as well
C30_OtherVenueInDelta ==
    /\ Collected
    /\ pred_out.put # << >>
    /\ pred_in.orderbook.exchange = "bybit"
    /\ Len(pred_out.put[1]) = 2
    /\ "ETH" \in DOMAIN FeedMarkets(pred_out.feed, "binance")
    /\ DOMAIN DeltaEntry(pred_out.put[1], "binance").markets = {"BTC"}
    /\ DeltaEntry(pred_out.put[1], "binance").markets["BTC"]
         = FeedMarkets(pred_out.feed, "binance")["BTC"]
    /\ DeltaEntry(pred_out.put[1], "bybit").markets["BTC"].timestamp
         = pred_in.orderbook.timestamp

-----------------------------------------------------------------------------
(* Properties of close() *)

\* a call of close() on a position that close() has been called on before
SecondClose ==
    /\ pred_in # NoPred
    /\ pred_in.op = "ArbitragePosition.close"
    /\ pred_in.calls >= 1
    /\ pred_in'.calls = pred_in.calls + 1

\* C13: a call of close() on a position already closed once leaves the
\* position's fields and the contracts on both venues as the first call
\* left them, and returns without raising whatever the venues answered.
C13_CloseIsIdempotent ==
    [][ SecondClose =>
          /\ pred_out'.position = pred_out.position
          /\ pred_out'.contracts = pred_out.contracts
          /\ ~ pred_out'.raised ]_vars

\* C13: the first close() took contracts off both venues; the second sent
\* both reduce-only orders again, both venues answered with an error, and
\* the call returned
C13_SecondCloseRejected ==
    /\ pred_in # NoPred
    /\ pred_in.op = "ArbitragePosition.close"
    /\ pred_in.calls = 2
    /\ \A v \in DOMAIN pred_in.contracts : pred_in.contracts[v] # 0
    /\ \A v \in DOMAIN pred_out.contracts : pred_out.contracts[v] = 0
    /\ Len(pred_out.results) = 4
    /\ pred_out.results[1] = "exc"
    /\ pred_out.results[2] = "exc"
    /\ ~ pred_out.raised

-----------------------------------------------------------------------------
(* Properties of the close phase *)

Cycling == pred_in # NoPred /\ pred_in.op = "close_cycle"

\* C37: the cycle that selects a position for close takes it out of
\* self.positions whatever its requests got, close() raises for none of
\* them, and no later cycle sends a request for it.
C37_ClosedIsRemovedWhateverTheOutcome ==
    /\ [][ (Cycling /\ pred_in'.cycles = pred_in.cycles + 1) =>
             /\ pred_out'.positions = EmptyDict
             /\ ~ pred_out'.raised
             /\ pred_out.positions = EmptyDict
                  => /\ pred_out'.results = << >>
                     /\ pred_out'.contracts = pred_out.contracts ]_vars
    /\ [] ( (Cycling /\ pred_in.cycles > 0) => pred_out.positions = EmptyDict )

\* C37: both venues were down in the cycle that closed the position: its
\* two reduce-only orders got an error, the venues hold the contracts of
\* both legs, and self.positions has no entry for it
C37_BothLegsFailedAndUntracked ==
    /\ Cycling
    /\ pred_in.cycles = 1
    /\ pred_in.position.bought_amount > 0
    /\ pred_in.position.sold_amount > 0
    /\ Len(pred_out.results) = 4
    /\ pred_out.results[1] = "exc"
    /\ pred_out.results[2] = "exc"
    /\ pred_out.contracts[pred_in.position.buy_exchange] > 0
    /\ pred_out.contracts[pred_in.position.sell_exchange] < 0
    /\ pred_out.positions = EmptyDict
    /\ ~ pred_out.raised

-----------------------------------------------------------------------------
(* Properties of watch_orderbook *)

Watching == pred_in # NoPred /\ pred_in.op = "watch_orderbook"

WatchErrors == {"NetworkError", "Exception", "AttributeError"}

\* task k is in the sleep that follows an exception
Backoff(k) == Watching /\ pred_out.tasks[k].at = "sleep"

\* C24: a subscription task ends only by cancellation.  An exception of
\* any kind puts it into a sleep that starts at zero; it calls
\* watch_order_book again when, and only when, the sleep has lasted
\* data_feed_retry_seconds; and a task in that sleep always comes to
\* subscribe again unless it is cancelled, however many times it has failed.
C24_SubscriptionRetriesForever ==
    /\ [] ( Watching =>
              \A k \in WatchTasks :
                /\ pred_out.tasks[k].at = "ended"
                     => pred_out.tasks[k].last = "CancelledError"
                /\ pred_out.tasks[k].at = "sleep"
                     => pred_out.tasks[k].last \in WatchErrors )
    /\ [][ Watching =>
             \A k \in WatchTasks :
               /\ (pred_out'.tasks[k].last \in WatchErrors
                     /\ pred_out'.tasks[k] # pred_out.tasks[k]
                     /\ pred_out.tasks[k].at # "sleep")
                    => pred_out'.tasks[k] = WatchTask("sleep", 0,
                                                      pred_out'.tasks[k].last)
               /\ (pred_out.tasks[k].at = "sleep"
                     /\ pred_out'.tasks[k].at = "watch")
                    => pred_out.tasks[k].slept = data_feed_retry_seconds ]_vars
    /\ \A k \in WatchTasks :
         Backoff(k) ~> ( /\ Watching
                         /\ \/ pred_out.tasks[k].at = "watch"
                            \/ pred_out.tasks[k].last = "CancelledError" )

\* C24: one task has slept out an exception that is no NetworkError and
\* subscribed again, while the other is half way through the sleep after a
\* NetworkError
C24_ResubscribedAfterException ==
    /\ Watching
    /\ pred_out.tasks[<<"binance", "BTC">>] = WatchTask("watch", 0, "Exception")
    /\ pred_out.tasks[<<"bybit", "BTC">>]
         = WatchTask("sleep", data_feed_retry_seconds \div 2, "NetworkError")

\* task k has taken a delivery with both sides in this step: it goes to
\* close the transport, or its snapshot is the newest of collect_queue
DeliveredTo(k) ==
    /\ Watching
    /\ pred_in.ws_latency_threshold # NoThreshold
    /\ pred_out.tasks[k].at = "watch"
    /\ \/ pred_out'.tasks[k].at = "close"
       \/ pred_out'.collect_queue = Append(pred_out.collect_queue, k)

\* C31: with a latency threshold configured, a delivery that comes more than
\* the threshold after the one before makes the task call exchange.close()
\* and put nothing, a delivery within the threshold is put and closes
\* nothing; and when close() has returned the task is back in
\* watch_order_book, neither ended nor in the sleep of the retry.
C31_LateDeliveryRestartsTransport ==
    [][ \A k \in WatchTasks :
          /\ DeliveredTo(k) =>
               IF pred_out'.delay[k] > pred_in.ws_latency_threshold
               THEN /\ pred_out'.tasks[k] = WatchTask("close", 0, "late")
                    /\ pred_out'.collect_queue = pred_out.collect_queue
               ELSE /\ pred_out'.tasks[k].at = "watch"
                    /\ pred_out'.collect_queue
                         = Append(pred_out.collect_queue, k)
          /\ ( /\ Watching
               /\ pred_out.tasks[k].at = "close"
               /\ pred_out'.tasks[k] # pred_out.tasks[k]
               /\ pred_out'.tasks[k].last \notin WatchErrors
               /\ pred_out'.tasks[k].last # "CancelledError" )
               => pred_out'.tasks[k] = WatchTask("watch", 0, "late") ]_vars

\* C31: one task is subscribed again after a delivery 6 s after the one
\* before and the close of its venue, the other has put a snapshot that came
\* exactly the threshold of 5 s after the one before
C31_ResumedAfterClose ==
    /\ Watching
    /\ pred_in.ws_latency_threshold = 5
    /\ pred_out.tasks[<<"binance", "BTC">>] = WatchTask("watch", 0, "late")
    /\ pred_out.delay[<<"binance", "BTC">>] = 6
    /\ pred_out.tasks[<<"bybit", "BTC">>] = WatchTask("watch", 0, "snapshot")
    /\ pred_out.delay[<<"bybit", "BTC">>] = 5

\* C32: no task of the data feed fails on a configuration key that the
\* configuration object does not have: a delivery with both sides never
\* ends in the AttributeError of reading config.ws_latency_threshold, so it
\* is compared with the threshold and put on collect_queue.
C32_NoMissingConfigurationKey ==
    Watching =>
      \A k \in WatchTasks : pred_out.tasks[k].last # "AttributeError"

\* C25: the channel from the subscription tasks to the aggregator holds the
\* tasks back: it never has as many snapshots queued as the tasks deliver
\* in all (MaxSnapshots), because a task whose put finds the channel at its
\* capacity waits until the aggregator has taken a snapshot.
C25_ProducerHeldBack ==
    Watching => Len(pred_out.collect_queue) < MaxSnapshots

-----------------------------------------------------------------------------
(* Properties of the refreshers *)

Refreshing == pred_in # NoPred /\ pred_in.op = "refresh"

\* refresher r ends a fetch round in this step
RoundEnds(r) ==
    /\ pred_out[r].at = "fetch"
    /\ pred_out'[r] # pred_out[r]

\* fetch_balance_data ends a round in this step
BalanceRoundEnds ==
    /\ Refreshing
    /\ pred_out["fetch_balance_data"].at = "fetch"
    /\ pred_in'.fetched \in FetchResults
    /\ \/ pred_in'.fetched # pred_in.fetched
       \/ pred_out'["fetch_balance_data"] # pred_out["fetch_balance_data"]
       \/ exchange_balances' # exchange_balances

C26_SleepBetweenRounds ==
    /\ [] ( Refreshing =>
              \A r \in Refreshers :
                pred_out[r].at = "ended" => pred_out[r].last = "CancelledError" )
    /\ [][ Refreshing =>
             \A r \in Refreshers :
               /\ RoundEnds(r)
                    => \/ pred_out'[r].at = "ended"
                       \/ /\ pred_out'[r].at = "sleep"
                          /\ pred_out'[r].slept = 0
               /\ (pred_out[r].at = "sleep" /\ pred_out'[r].at = "fetch")
                    => pred_out[r].slept = RefreshInterval(r) ]_vars

-----------------------------------------------------------------------------
(* Properties of the supervisor *)

Supervised == pred_in # NoPred /\ pred_in.op = "run"

AllTasksOver == \A t \in RunTasks : pred_out.tasks[t] \in {"ended", "raised"}

\* C27: once run() has been cancelled no task goes on uncancelled, and
\* run() comes to its end; whenever work() is over, by cancellation or
\* because every module ended, every task has ended before close() is
\* called on any venue, close() is then called on every venue, and run()
\* ends without an exception whichever of the close() calls raised.
C27_ShutdownClosesEveryVenue ==
    /\ [] ( Supervised =>
              /\ pred_out.cancelled
                   => \A t \in RunTasks : pred_out.tasks[t] # "running"
              /\ (\E v \in RunVenues : pred_out.closes[v] # "none")
                   => /\ AllTasksOver
                      /\ \A v \in RunVenues : pred_out.closes[v] # "none"
              /\ pred_out.run = "done"
                   => /\ \A v \in RunVenues : pred_out.closes[v] \in {"ok", "exc"}
                      /\ pred_out.ended = "returned" )
    /\ (Supervised /\ pred_out.cancelled) ~> (Supervised /\ pred_out.run = "done")
    /\ (Supervised /\ \A m \in Modules : pred_out.modules[m] # "running")
         ~> (Supervised /\ pred_out.run = "done")

\* C27: run() was cancelled with every task running and has ended; the
\* close() of binance raised and the close() of bybit returned
C27_CancelledAndOneCloseRaised ==
    /\ Supervised
    /\ pred_out.cancelled
    /\ pred_out.run = "done"
    /\ \A t \in RunTasks : pred_out.tasks[t] = "ended"
    /\ pred_out.closes["binance"] = "exc"
    /\ pred_out.closes["bybit"] = "ok"
    /\ pred_out.ended = "returned"

\* C28: when a task of the position manager has ended with an uncaught
\* exception and strategy.work() is over, no task of the data feed is left
\* running: the aggregator and the subscription tasks have been cancelled.
C28_FatalInStrategyStopsFeed ==
    ( /\ Supervised
      /\ \E t \in ModuleTasks("Strategy") : pred_out.tasks[t] = "raised"
      /\ pred_out.modules["Strategy"] # "running" )
      => \A t \in ModuleTasks("DataFeed") : pred_out.tasks[t] # "running"

-----------------------------------------------------------------------------
(* Properties of the trailing stops *)

Stopping == pred_in # NoPred /\ pred_in.op = "trailing_stops"

\* C35: close() sends no reduce-only close order while a cancel_order of a
\* trailing stop of the position is not yet done.
C35_StopsCancelledBeforeClose ==
    (Stopping /\ pred_out.at = "closing") =>
      \A i, j \in 1..Len(pred_out.tasks) :
        ( /\ pred_out.tasks[i].kind = "cancel_order"
          /\ pred_out.tasks[j].kind = "close_position"
          /\ pred_out.tasks[j].state # "created" )
          => pred_out.tasks[i].state \in {"ok", "exc"}

\* C39: after open() each recorded info is an order of its own venue, the
\* buy info on the buy venue and the sell info on the sell venue, and every
\* cancel_order of close() goes to the venue the stop order was placed on.
C39_InfoOnItsOwnVenue ==
    Stopping =>
      /\ Cancellable(pred_out.buy_info)
           => pred_out.buy_info.exchange = pred_in.buy
      /\ Cancellable(pred_out.sell_info)
           => pred_out.sell_info.exchange = pred_in.sell
      /\ \A i \in 1..Len(pred_out.tasks) :
           pred_out.tasks[i].kind = "cancel_order"
             => TrailingStopTasks(pred_in.buy, pred_in.sell)
                  [pred_out.tasks[i].id].exchange = pred_out.tasks[i].exchange

-----------------------------------------------------------------------------
(* Properties of the primary legs *)

LegsPlaced ==
    /\ pred_in # NoPred
    /\ pred_in.op = "ArbitragePosition.open"
    /\ pred_out.gathered # << >>

\* C23: the two primary legs of a position opened by process_positions are
\* requests of the configured order type, gathered together: market orders
\* when config.order_type is 'market', post-only limit orders at the
\* spread's buy and sell price when it is 'limit'.
C23_LegsOfConfiguredType ==
    LegsPlaced =>
      /\ Len(pred_out.gathered) = 2
      /\ pred_out.gathered[1].side = "buy"
      /\ pred_out.gathered[2].side = "sell"
      /\ \A i \in 1..2 : pred_out.gathered[i].type = pred_in.order_type
      /\ pred_in.order_type = "limit"
           => /\ pred_out.gathered[1].postOnly
              /\ pred_out.gathered[2].postOnly
              /\ pred_out.gathered[1].price = pred_in.exchange_data[1].markets[
                                                pred_out.position.market].ask
              /\ pred_out.gathered[2].price = pred_in.exchange_data[2].markets[
                                                pred_out.position.market].bid

-----------------------------------------------------------------------------
(* Properties of the two predicates, stated on the call pred_in records *)

\* (buy_funding - sell_funding) * 100 if funding is considered, else 0
PredFundingAdj ==
    LET spread_data == pred_in.spread_data
        buy_funding == FundingRate(pred_in.rates, spread_data.buy_exchange_id,
                                   spread_data.market)
        sell_funding == FundingRate(pred_in.rates, spread_data.sell_exchange_id,
                                    spread_data.market)
    IN  IF pred_in.cf THEN (buy_funding - sell_funding) * 100 ELSE 0

\* now_ms - min_timestamp
PredAge == pred_in.current_timestamp - pred_in.spread_data.min_timestamp

\* opened_at + close_position_after_seconds, on the clock of current_time
PredDeadline == pred_in.opened_at + close_position_after_seconds * MsPerSecond

\* C4: have_to_open_position returns true exactly when net_spread minus the
\* funding adjustment is at least open_position_net_spread_threshold and the
\* data age is strictly below open_position_max_data_age_ms.
C4_OpenIffSpreadAndFresh ==
    pred_in.op = "open" =>
      ( pred_out <=>
          /\ pred_in.spread_data.net_spread - PredFundingAdj
               >= open_position_net_spread_threshold
          /\ PredAge < open_position_max_data_age_ms )

\* C4: with funding considered and a nonzero adjustment, a spread that
\* passes the threshold is refused because its data is exactly at the limit
C4_RefusedAtAgeLimit ==
    /\ pred_in.op = "open"
    /\ pred_in.cf
    /\ PredFundingAdj # 0
    /\ pred_in.spread_data.net_spread - PredFundingAdj
         >= open_position_net_spread_threshold
    /\ PredAge = open_position_max_data_age_ms
    /\ ~ pred_out

\* C5: have_to_close_position returns true exactly when the holding time
\* has run out or raw_spread minus the funding adjustment is at most
\* close_position_raw_spread_threshold, and the data age is strictly below
\* close_position_max_data_age_ms.
C5_CloseIffDueAndFresh ==
    pred_in.op = "close" =>
      ( pred_out <=>
          /\ \/ PredDeadline < pred_in.current_time
             \/ pred_in.spread_data.raw_spread - PredFundingAdj
                  <= close_position_raw_spread_threshold
          /\ PredAge < close_position_max_data_age_ms )

\* C5: a position past its holding time is kept because the data is stale
C5_TimedOutButStale ==
    /\ pred_in.op = "close"
    /\ PredDeadline < pred_in.current_time
    /\ PredAge >= close_position_max_data_age_ms
    /\ ~ pred_out

\* fresh data and a spread above the close threshold: only the time-based
\* branch can close
PredOnlyTimeCanClose ==
    /\ pred_in.op = "close"
    /\ PredAge < close_position_max_data_age_ms
    /\ pred_in.spread_data.raw_spread - PredFundingAdj
         > close_position_raw_spread_threshold

=============================================================================
